---- MODULE Spec2Model ----
(***************************************************************************)
(* Model of the autozen API gateway: the RPC-over-RabbitMQ bridge of the   *)
(* Auth and Payment adapters (connect, _make_rpc_call, on_response and    *)
(* the adapter operations built on it), the JWT validator and the use     *)
(* cases that gate a backend call behind it.                              *)
(*                                                                         *)
(* Spec     : concurrent _make_rpc_call invocations on one adapter         *)
(*            instance, interleaved at their await points, with a broker   *)
(*            that delivers replies, stays silent or fails.                *)
(* SpecOps  : one adapter operation at a time with the full range of       *)
(*            reply envelopes.                                             *)
(* SpecConnect : successive operations on one adapter instance whose      *)
(*            connection and channel may close under it.                   *)
(* SpecReconnect : concurrent callers of connect(), interleaved at its     *)
(*            await points.                                                *)
(* SpecApi  : one HTTP request through a route and the exception          *)
(*            middleware, and one request of the HTTP payment client.      *)
(* SpecGate : the use cases / services that call the token validator      *)
(*            before contacting a backend.                                 *)
(* SpecValidator : validate_token on every token, required token type and *)
(*            list of required roles.                                      *)
(***************************************************************************)
EXTENDS Integers, FiniteSets, Sequences, TLC

(***************************************************************************)
(* Bounds of the model.                                                    *)
(***************************************************************************)
MaxTime == 6
MaxDeliveries == 2

(***************************************************************************)
(* Program constants.                                                      *)
(***************************************************************************)
DefaultTimeout == 5
JwtLeeway == 10

\* Two concurrent calls on the shared adapter instance.
Calls == {1, 2}
Adapters == {"auth", "payment"}

\* The operations each adapter class offers (the operation_type tags).
AdapterOps(a) ==
    IF a = "auth" THEN {"login", "refresh", "register"} ELSE {"add_bank_card"}

Ops == AdapterOps("auth") \cup AdapterOps("payment")

(***************************************************************************)
(* Exceptions.  An exception value is a record; cls names the Python class *)
(* and status_code / detail are the attributes the taxonomy classes carry. *)
(* Classes outside the taxonomy (raw library or runtime errors) carry      *)
(* status_code 0.                                                          *)
(***************************************************************************)
TaxonomyClasses ==
    {"ApiGatewayError", "AuthServiceError", "PaymentServiceError", "RabbitMQError"}

ApiGatewayError(status_code, detail) ==
    [cls |-> "ApiGatewayError", status_code |-> status_code, detail |-> detail]

AuthServiceError(status_code, detail) ==
    [cls |-> "AuthServiceError", status_code |-> status_code, detail |-> detail]

PaymentServiceError(status_code, detail) ==
    [cls |-> "PaymentServiceError", status_code |-> status_code, detail |-> detail]

RabbitMQError(status_code, detail) ==
    [cls |-> "RabbitMQError", status_code |-> status_code, detail |-> detail]

RawError(cls) == [cls |-> cls, status_code |-> 0, detail |-> cls]

NoError == [cls |-> "none", status_code |-> 0, detail |-> "none"]

\* The faults a broker operation can raise: two AMQP classes (the connection
\* error and a channel-level error) and one error outside the AMQP hierarchy.
BrokerFaults == {"AMQPConnectionError", "AMQPChannelError", "OSError"}

IsAMQPConnectionError(f) == f = "AMQPConnectionError"

IsAMQPError(f) == f \in {"AMQPConnectionError", "AMQPChannelError"}

(***************************************************************************)
(* Reply envelopes.  The backend's reply body is JSON; json is "object"    *)
(* when json.loads yields a mapping and "invalid" when decoding fails.     *)
(* Python's None is the string "None"; success is "True", "False" or       *)
(* "None" (key absent).  A body is null (key absent, .get gives None) or a *)
(* mapping from keys to strings.                                           *)
(***************************************************************************)
None == "None"

NullBody == [null |-> TRUE, map |-> [k \in {} |-> None]]

MapBody(m) == [null |-> FALSE, map |-> m]

TokensBody(at, rt) ==
    MapBody([k \in {"access_token", "refresh_token"} |->
                IF k = "access_token" THEN at ELSE rt])

UserBody(first, last) ==
    MapBody([k \in {"first_name", "last_name"} |->
                IF k = "first_name" THEN first ELSE last])

EmptyBody == MapBody([k \in {} |-> None])

PaymentTokenBody ==
    MapBody([k \in {"payment_token", "card_type", "expiration_month",
                    "expiration_year"} |->
                CASE k = "payment_token" -> "PT"
                  [] k = "card_type" -> "visa"
                  [] k = "expiration_month" -> "12"
                  [] k = "expiration_year" -> "2030"])

Bodies ==
    {NullBody, EmptyBody, TokensBody("AT", "RT"), TokensBody("AT2", "RT2"),
     UserBody("Ann", "Lee"), PaymentTokenBody}

StatusCodes == {200, 400, 401, 403, 404, 409, 418, 500}

Envelope(status_code, success, body, error_message) ==
    [json |-> "object", status_code |-> status_code, success |-> success,
     body |-> body, error_message |-> error_message]

InvalidJson ==
    [json |-> "invalid", status_code |-> 0, success |-> None,
     body |-> NullBody, error_message |-> None]

\* The envelopes of SpecOps: replies flagged as successes, with every body,
\* and replies not flagged as successes, with every status code.
AllEnvelopes ==
    {Envelope(s, "True", b, None) : s \in {200, 500}, b \in Bodies}
    \cup {Envelope(s, ok, b, m) :
            s \in StatusCodes, ok \in {"False", None},
            b \in {NullBody, TokensBody("AT", "RT")}, m \in {None, "bad creds"}}
    \cup {InvalidJson}

\* The envelopes of the concurrent specification: a success and an
\* undecodable reply.
CoreEnvelopes ==
    {Envelope(200, "True", TokensBody("AT", "RT"), None), InvalidJson}

\* An aio_pika.IncomingMessage: the correlation_id property and the body.
Message(correlation_id, envelope) ==
    [correlation_id |-> correlation_id, envelope |-> envelope]

NoMessage == Message(0, InvalidJson)

(***************************************************************************)
(* RabbitMQResponse, the decoded envelope handed to the adapter operation. *)
(***************************************************************************)
RabbitMQResponse(status_code, body, success, error_message) ==
    [status_code |-> status_code, body |-> body, success |-> success,
     error_message |-> error_message]

\* RabbitMQResponse.success_response(status_code, body): a response whose
\* success flag is set.
success_response(status_code, body) ==
    RabbitMQResponse(status_code, body, "True", None)

NoResponse == RabbitMQResponse(0, NullBody, None, None)

\* Python truthiness of the success field.
Truthy(v) == v = "True"

(***************************************************************************)
(* State of the RPC bridge.                                                *)
(***************************************************************************)
VARIABLES
    adapter,         \* the class of the shared adapter instance: "auth" or "payment"
    connection,      \* self._connection: "None", "open" or "closed"
    channel,         \* self._channel: "None", "open" or "closed"
    exchange,        \* self._exchange: "None", "declared", or "stale" (declared
                     \*   on a channel that has closed since)
    pc,              \* pc[c]: the await point call c is suspended at
    op,              \* op[c]: the operation_type of the adapter operation
    callPayload,     \* callPayload[c]: the payload mapping the operation passes
    correlation_id,  \* correlation_id[c]: 0 until generated
    queue,           \* queue[c]: the callback queue, "none", "declared" or "deleted"
    consumer,        \* consumer[c]: the registration of on_response on the queue:
                     \*   "none", "registered" or "cancelled"
    future,          \* future[c]: [state, msg] of the asyncio future
    published,       \* published[c]: the request messages the call has published
    delivered,       \* delivered[c]: messages handed to on_response of call c
    acked,           \* acked[c]: messages on_response acknowledged
    callbackErrors,  \* callbackErrors[c]: on_response runs that raised
    lastDelivery,    \* the correlation id and receiver of the latest delivery
    now,             \* the event loop's clock, in seconds
    deadline,        \* deadline[c]: when wait_for gives up; 0 while not waiting
    raised,          \* raised[c]: the exception leaving the try block, or NoError
    response,        \* response[c]: the RabbitMQResponse the try block returns
    cancels,         \* cancels[c]: callback_queue.cancel calls made
    rpcResult,       \* rpcResult[c]: how _make_rpc_call ended
    tryFault,        \* tryFault[c]: the broker failure that hit the call inside
                     \*   its try block: "none", "publish" (an AMQP error
                     \*   raised by publish) or "wait" (the channel or the
                     \*   connection went away while the call was waiting)
    opResult         \* opResult[c]: how the adapter operation ended

\* connect() at the grain of its await points, for callers that run it
\* concurrently.  A connection is named by the caller whose connect_robust
\* created it, a channel by its opener and the connection it was opened
\* on, an exchange by the channel it was declared on.
VARIABLES
    sConnection,     \* self._connection: 0 (None) or the connection's name
    sChannel,        \* self._channel: [by, conn], by = 0 for None
    sExchange,       \* self._exchange: [chan], chan.by = 0 for None
    cpc,             \* cpc[c]: the await of connect() caller c is suspended at
    block,           \* block[c]: the block of connect() caller c entered
    onConnection,    \* onConnection[c]: the connection c's pending channel()
                     \*   was invoked on
    onChannel        \* onChannel[c]: the channel c's pending declare_exchange
                     \*   was invoked on

connVars ==
    <<sConnection, sChannel, sExchange, cpc, block, onConnection, onChannel>>

rpcVars ==
    <<connVars, adapter, callPayload, connection, channel, exchange, pc, op, correlation_id, queue,
      consumer, future, published, delivered, acked, callbackErrors,
      lastDelivery, now, deadline, raised, response, cancels,
      rpcResult, tryFault, opResult>>

(***************************************************************************)
(* State of the validator and of the use cases that call it.               *)
(***************************************************************************)
VARIABLES
    gToken,               \* the bearer token of the request
    gRequiredType,        \* validate_token's required_token_type argument
    gRequiredRoles,       \* validate_token's required_roles argument, a list
    gValidation,          \* how the latest validate_token call ended
    gOp,                  \* the use case or service method being executed
    gCard,                \* whether the bank card passes _validate_card
    gPc,                  \* "start", "backend" (awaiting the adapter) or "done"
    gBackendCalls,        \* the calls made to the backend adapter
    gResult               \* how the use case ended

gateVars ==
    <<gToken, gRequiredType, gRequiredRoles, gValidation, gOp, gCard,
      gPc, gBackendCalls, gResult>>

(***************************************************************************)
(* State of the HTTP layer: one request travelling through a route and the *)
(* exception middleware, and one request of the HTTP payment client.       *)
(***************************************************************************)
VARIABLES
    wRoute,          \* the route handling the request, "none" when idle
    wService,        \* how the service / use case behind the route ended
    wPc,             \* "idle", "route", "dispatch" or "done"
    wRouteResult,    \* how the route function ended
    wResult,         \* how ExceptionMiddleware.dispatch ended
    hPc,             \* the payment client's request: "idle", "sent", "done"
    hOutcome,        \* how client.request / raise_for_status ended
    hResult          \* how PaymentHttpClient._request ended

webVars ==
    <<wRoute, wService, wPc, wRouteResult, wResult, hPc, hOutcome, hResult>>

vars == <<rpcVars, gateVars, webVars>>

\* How a coroutine ended: it returned a value or raised an exception.
NotEnded == [kind |-> "none", error |-> NoError, value |-> NoResponse]

Returned(v) == [kind |-> "return", error |-> NoError, value |-> v]

Raised(e) == [kind |-> "raise", error |-> e, value |-> NoResponse]

PendingFuture == [state |-> "pending", msg |-> NoMessage]

NoFuture == [state |-> "none", msg |-> NoMessage]

\* uuid.uuid4(): an id no other call has.
uuid4(c) == c

(***************************************************************************)
(* connect(): the awaits it runs, in order, and the one that fails (or     *)
(* "none").  The result is the triple it leaves stored and the exception   *)
(* it raises, if any.                                                      *)
(***************************************************************************)
ConnectSteps ==
    {"none", "connect_robust", "channel", "declare_exchange",
     "reopen_channel", "redeclare_exchange"}

\* The except clause of connect(): the Auth adapter catches
\* AMQPConnectionError, the Payment adapter AMQPError.
ConnectCatches(a, fault) ==
    IF a = "auth" THEN IsAMQPConnectionError(fault) ELSE IsAMQPError(fault)

ConnectErrorDetail(a) ==
    IF a = "auth" THEN "RabbitMQ service is unavailable."
    ELSE "RabbitMQ service is not available."

connect(a, s, failing, fault) ==
    LET dead == s.connection \in {"None", "closed"}
        \* first block: (re)establish connection, channel and exchange
        b1 == IF ~dead THEN [s EXCEPT !.error = NoError]
              ELSE IF failing = "connect_robust"
                   THEN [s EXCEPT !.error = RawError(fault)]
              ELSE IF failing = "channel"
                   THEN [s EXCEPT !.connection = "open", !.error = RawError(fault)]
              ELSE IF failing = "declare_exchange"
                   THEN [s EXCEPT !.connection = "open", !.channel = "open",
                                  !.error = RawError(fault)]
              ELSE [connection |-> "open", channel |-> "open",
                    exchange |-> "declared", error |-> NoError]
        caught == b1.error # NoError /\ ConnectCatches(a, fault)
        e1 == IF caught
              THEN [b1 EXCEPT !.error = RabbitMQError(503, ConnectErrorDetail(a))]
              ELSE b1
    IN  IF e1.error # NoError THEN e1
        \* second block: the channel alone is missing or closed
        ELSE IF e1.channel \notin {"None", "closed"} THEN e1
        ELSE IF failing = "reopen_channel"
             THEN [e1 EXCEPT !.error = RawError(fault)]
        ELSE IF failing = "redeclare_exchange"
             THEN [e1 EXCEPT !.channel = "open", !.error = RawError(fault)]
        ELSE [e1 EXCEPT !.channel = "open", !.exchange = "declared"]

\* The awaits connect() runs from the stored state s.
ConnectStepsRun(s) ==
    IF s.connection \in {"None", "closed"}
    THEN {"connect_robust", "channel", "declare_exchange"}
    ELSE IF s.channel \in {"None", "closed"}
         THEN {"reopen_channel", "redeclare_exchange"}
         ELSE {}

Stored == [connection |-> connection, channel |-> channel,
           exchange |-> exchange, error |-> NoError]

(***************************************************************************)
(* connect() interleaved at its await points.                              *)
(***************************************************************************)
\* The callers that run connect() concurrently.
Callers == {1, 2, 3}

NoChannel == [by |-> 0, conn |-> 0]

NoExchange == [chan |-> NoChannel]

ConnInit ==
    /\ sConnection = 0
    /\ sChannel = NoChannel
    /\ sExchange = NoExchange
    /\ cpc = [c \in Callers |-> "idle"]
    /\ block = [c \in Callers |-> "none"]
    /\ onConnection = [c \in Callers |-> 0]
    /\ onChannel = [c \in Callers |-> NoChannel]

\* Caller c enters connect() and runs to its first await: connect_robust
\* when there is no connection (line 38), else channel() on the stored
\* connection when there is no channel (line 55), else it returns.
EnterConnect(c) ==
    /\ cpc[c] = "idle"
    /\ IF sConnection = 0
       THEN /\ cpc' = [cpc EXCEPT ![c] = "connect_robust"]
            /\ block' = [block EXCEPT ![c] = "first"]
            /\ UNCHANGED onConnection
       ELSE IF sChannel = NoChannel
       THEN /\ cpc' = [cpc EXCEPT ![c] = "reopen_channel"]
            /\ block' = [block EXCEPT ![c] = "second"]
            /\ onConnection' = [onConnection EXCEPT ![c] = sConnection]
       ELSE /\ cpc' = [cpc EXCEPT ![c] = "returned"]
            /\ block' = [block EXCEPT ![c] = "skipped"]
            /\ UNCHANGED onConnection
    /\ UNCHANGED <<gateVars, webVars, adapter, callPayload, connection, channel, exchange, pc, op,
                   correlation_id, queue, consumer, future, published, delivered,
                   acked, callbackErrors, lastDelivery, now, deadline, raised,
                   response, cancels, rpcResult, tryFault, opResult,
                   sConnection, sChannel, sExchange, onChannel>>

\* connect_robust returns (line 40): the new connection is stored and
\* self._connection.channel() is invoked on what is stored now (line 45).
ConnectRobustReturns(c) ==
    /\ cpc[c] = "connect_robust"
    /\ sConnection' = c
    /\ onConnection' = [onConnection EXCEPT ![c] = c]
    /\ cpc' = [cpc EXCEPT ![c] = "channel"]
    /\ UNCHANGED <<gateVars, webVars, adapter, callPayload, connection, channel, exchange, pc, op,
                   correlation_id, queue, consumer, future, published, delivered,
                   acked, callbackErrors, lastDelivery, now, deadline, raised,
                   response, cancels, rpcResult, tryFault, opResult,
                   sChannel, sExchange, block, onChannel>>

\* channel() returns (line 45, or line 56 in the second block): the channel
\* is stored and declare_exchange is invoked on what is stored now.
ChannelReturns(c) ==
    /\ cpc[c] \in {"channel", "reopen_channel"}
    /\ sChannel' = [by |-> c, conn |-> onConnection[c]]
    /\ onChannel' = [onChannel EXCEPT ![c] = sChannel']
    /\ cpc' = [cpc EXCEPT ![c] = IF cpc[c] = "channel" THEN "declare_exchange"
                                  ELSE "redeclare_exchange"]
    /\ UNCHANGED <<gateVars, webVars, adapter, callPayload, connection, channel, exchange, pc, op,
                   correlation_id, queue, consumer, future, published, delivered,
                   acked, callbackErrors, lastDelivery, now, deadline, raised,
                   response, cancels, rpcResult, tryFault, opResult,
                   sConnection, sExchange, block, onConnection>>

\* declare_exchange returns (lines 46-50 or 57-61): the exchange is stored.
\* After the first block the channel test of line 55 finds a channel (none
\* is closed here), so connect() returns in both cases.
DeclareExchangeReturns(c) ==
    /\ cpc[c] \in {"declare_exchange", "redeclare_exchange"}
    /\ sExchange' = [chan |-> onChannel[c]]
    /\ cpc' = [cpc EXCEPT ![c] = "returned"]
    /\ UNCHANGED <<gateVars, webVars, adapter, callPayload, connection, channel, exchange, pc, op,
                   correlation_id, queue, consumer, future, published, delivered,
                   acked, callbackErrors, lastDelivery, now, deadline, raised,
                   response, cancels, rpcResult, tryFault, opResult,
                   sConnection, sChannel, block, onConnection, onChannel>>

(***************************************************************************)
(* The adapter operations: what login / refresh / register / add_bank_card *)
(* do with the RabbitMQResponse that _make_rpc_call returned.              *)
(***************************************************************************)
AuthHandledCodes == {400, 401, 403, 404}

PaymentHandledCodes == {400, 401, 403}

\* Variant of _handle_error_response that raises the generic internal
\* error for every status code.
AuthHandleErrorResponse_Generic(r) ==
    Raised(ApiGatewayError(500,
            "Unhandled error occurred while processing the response code."))

\* Variant of _handle_error_response whose last branch does not raise.
AuthHandleErrorResponse_Silent(r) ==
    IF r.status_code \in AuthHandledCodes
    THEN Raised(AuthServiceError(r.status_code, r.error_message))
    ELSE IF r.status_code = 500
    THEN Raised(AuthServiceError(r.status_code,
            "Unhandled error occurred in the Auth Service while processing the message."))
    ELSE NotEnded

\* RabbitMQAuthAdapter._handle_error_response: every branch raises.
AuthHandleErrorResponse(r) ==
    IF r.status_code \in AuthHandledCodes
    THEN Raised(AuthServiceError(r.status_code, r.error_message))
    ELSE IF r.status_code = 500
    THEN Raised(AuthServiceError(r.status_code,
            "Unhandled error occurred in the Auth Service while processing the message."))
    ELSE Raised(ApiGatewayError(500,
            "Unhandled error occurred while processing the response code."))

\* RabbitMQPaymentAdapter._handle_error_response.
PaymentHandleErrorResponse(r) ==
    IF r.status_code \in PaymentHandledCodes
    THEN Raised(PaymentServiceError(r.status_code, r.error_message))
    ELSE IF r.status_code = 500
    THEN Raised(PaymentServiceError(500,
            "Unhandled error occurred in the Payment Service while processing the message."))
    ELSE Raised(ApiGatewayError(500,
            "Unhandled error occurred while processing the response code."))

\* dict.get(key): the value, or None when the key is absent.
Get(map, key) == IF key \in DOMAIN map THEN map[key] ELSE None

\* A response DTO: its class and its fields.
DTO(cls, fields) == [dto |-> cls, fields |-> fields]

ReturnedDTO(cls, fields) ==
    [kind |-> "return", error |-> NoError, value |-> DTO(cls, fields)]

\* The dataclasses' fields: required ones and ones with a default.
DtoRequired(cls) ==
    CASE cls = "RegisterResponseDTO" -> {"first_name", "last_name"}
      [] cls = "PaymentTokenResponse" ->
            {"payment_token", "card_type", "expiration_month", "expiration_year"}
      [] OTHER -> {}

DtoOptional(cls) ==
    CASE cls = "RegisterResponseDTO" -> {"email", "phone_number", "roles"}
      [] cls = "PaymentTokenResponse" -> {"created_at", "updated_at", "id"}
      [] OTHER -> {"access_token", "refresh_token"}

DtoDefault(cls, k) ==
    IF cls \in {"RefreshTokenResponseDTO", "LoginResponseDTO"} THEN "" ELSE None

\* cls(**body): TypeError when body is None, has a key that is no field, or
\* lacks a required field; fields left out take their defaults.
Construct(cls, body) ==
    IF body.null THEN Raised(RawError("TypeError"))
    ELSE IF ~(DOMAIN body.map \subseteq DtoRequired(cls) \cup DtoOptional(cls))
    THEN Raised(RawError("TypeError"))
    ELSE IF ~(DtoRequired(cls) \subseteq DOMAIN body.map)
    THEN Raised(RawError("TypeError"))
    ELSE ReturnedDTO(cls,
            [k \in DtoRequired(cls) \cup DtoOptional(cls) |->
                IF k \in DOMAIN body.map THEN body.map[k] ELSE DtoDefault(cls, k)])

\* `if not response.success: self._handle_error_response(response)`: how
\* the statement ends; NotEnded when control goes on to the next statement.
AuthErrorCheck(r) ==
    IF ~Truthy(r.success) THEN AuthHandleErrorResponse(r) ELSE NotEnded

PaymentErrorCheck(r) ==
    IF ~Truthy(r.success) THEN PaymentHandleErrorResponse(r) ELSE NotEnded

\* RabbitMQAuthAdapter.login after _make_rpc_call returned r:
\* response.body.get(...) raises AttributeError on a None body.
LoginInterpret(r) ==
    IF AuthErrorCheck(r).kind = "raise" THEN AuthErrorCheck(r)
    ELSE IF r.body.null THEN Raised(RawError("AttributeError"))
    ELSE ReturnedDTO("LoginResponseDTO",
            [k \in {"access_token", "refresh_token"} |-> Get(r.body.map, k)])

\* RabbitMQAuthAdapter.refresh after _make_rpc_call returned r.
RefreshInterpret(r) ==
    IF AuthErrorCheck(r).kind = "raise" THEN AuthErrorCheck(r)
    ELSE Construct("RefreshTokenResponseDTO", r.body)

\* RabbitMQAuthAdapter.register after _make_rpc_call returned r.
RegisterInterpret(r) ==
    IF AuthErrorCheck(r).kind = "raise" THEN AuthErrorCheck(r)
    ELSE Construct("RegisterResponseDTO", r.body)

\* RabbitMQPaymentAdapter.add_bank_card after _make_rpc_call returned r.
AddBankCardInterpret(r) ==
    IF PaymentErrorCheck(r).kind = "raise" THEN PaymentErrorCheck(r)
    ELSE Construct("PaymentTokenResponse", r.body)

\* The adapter operation o, given how its _make_rpc_call ended: an
\* exception propagates, a response is interpreted.
AdapterOperation(o, rpc) ==
    IF rpc.kind = "raise" THEN rpc
    ELSE CASE o = "login" -> LoginInterpret(rpc.value)
           [] o = "refresh" -> RefreshInterpret(rpc.value)
           [] o = "register" -> RegisterInterpret(rpc.value)
           [] o = "add_bank_card" -> AddBankCardInterpret(rpc.value)

(***************************************************************************)
(* _make_rpc_call, one action per await point.                             *)
(***************************************************************************)
\* The errors the except clauses of _make_rpc_call raise.
TimeoutRaised(a) ==
    IF a = "auth"
    THEN AuthServiceError(504, "asyncio.TimeoutError: Auth Service is not responding.")
    ELSE PaymentServiceError(504, "asyncio.TimeoutError: Payment Service is not responding.")

\* except AMQPException -> RabbitMQError 503; except Exception -> ApiGatewayError 500.
TryFaultRaised(fault) ==
    IF IsAMQPError(fault)
    THEN RabbitMQError(503, "RabbitMQ communication error.")
    ELSE ApiGatewayError(500, "Unhandled error occurred while processing a message.")

\* The RabbitMQResponse each adapter builds from a decoded envelope.
BuildResponse(a, e) ==
    IF a = "auth"
    THEN RabbitMQResponse(e.status_code, e.body, e.success, e.error_message)
    ELSE success_response(e.status_code, e.body)

\* The payloads an adapter operation passes to _make_rpc_call: mappings
\* from field names to strings, with and without a key operation_type.
NoPayload == << >>

RpcPayloads ==
    {[email |-> "user@example.com"],
     [email |-> "user@example.com", operation_type |-> "register"],
     [operation_type |-> "login"]}

\* message_body = {'operation_type': operation_type, **payload}: the keys
\* of the payload are written after operation_type, so a payload key of
\* that name replaces the tag.
MessageBody(operation_type, p) ==
    [k \in {"operation_type"} \cup DOMAIN p |->
        IF k \in DOMAIN p THEN p[k] ELSE operation_type]

\* The published Message: the body, the correlation id and reply_to, the
\* name of the call's own callback queue.
RequestMessage(c) ==
    [correlation_id |-> correlation_id[c], reply_to |-> c,
     body |-> MessageBody(op[c], callPayload[c])]

\* The call ends: _make_rpc_call ends as rpc and the adapter operation that
\* awaited it runs to its own end without another await.
EndCall(c, rpc) ==
    /\ rpcResult' = [rpcResult EXCEPT ![c] = rpc]
    /\ opResult' = [opResult EXCEPT ![c] = AdapterOperation(op[c], rpc)]
    /\ pc' = [pc EXCEPT ![c] = "done"]

\* An adapter operation is invoked and reaches `await self.connect()`.
Begin(c, o, p) ==
    /\ pc[c] = "idle"
    /\ o \in AdapterOps(adapter)
    /\ pc' = [pc EXCEPT ![c] = "connect"]
    /\ op' = [op EXCEPT ![c] = o]
    /\ callPayload' = [callPayload EXCEPT ![c] = p]
    /\ UNCHANGED <<gateVars, webVars, connVars, adapter, tryFault, connection, channel, exchange, correlation_id, queue,
                   consumer, future, published, delivered, acked, callbackErrors,
                   lastDelivery, now, deadline, raised, response,
                   cancels, rpcResult, opResult>>

\* await self.connect() (line 80, outside the try block).
Connect(c, failing, fault) ==
    /\ pc[c] = "connect"
    /\ failing \in ConnectStepsRun(Stored) \cup {"none"}
    /\ LET r == connect(adapter, Stored, failing, fault)
       IN  /\ connection' = r.connection
           /\ channel' = r.channel
           /\ exchange' = r.exchange
           /\ IF r.error = NoError
              THEN /\ pc' = [pc EXCEPT ![c] = "declare_queue"]
                   /\ UNCHANGED <<rpcResult, opResult>>
              ELSE EndCall(c, Raised(r.error))
    /\ UNCHANGED <<gateVars, webVars, connVars, adapter, callPayload, tryFault, op, correlation_id, queue, consumer, future,
                   published, delivered, acked, callbackErrors, lastDelivery,
                   now, deadline, raised, response, cancels>>

\* await self._channel.declare_queue(...), then the future and the
\* correlation id are created (lines 87-94, outside the try block).
DeclareQueue(c, fault) ==
    /\ pc[c] = "declare_queue"
    /\ fault = "none" => channel = "open"
    /\ IF fault = "none"
       THEN /\ queue' = [queue EXCEPT ![c] = "declared"]
            /\ future' = [future EXCEPT ![c] = PendingFuture]
            /\ correlation_id' = [correlation_id EXCEPT ![c] = uuid4(c)]
            /\ pc' = [pc EXCEPT ![c] = "consume"]
            /\ UNCHANGED <<rpcResult, opResult>>
       ELSE /\ EndCall(c, Raised(RawError(fault)))
            /\ UNCHANGED <<queue, future, correlation_id>>
    /\ UNCHANGED <<gateVars, webVars, connVars, adapter, callPayload, tryFault, connection, channel, exchange, op, consumer,
                   published, delivered, acked, callbackErrors, lastDelivery,
                   now, deadline, raised, response, cancels>>

\* Variant of the call in which the request is published before the
\* consumer is registered: this step moves on without registering it.
Consume_AfterPublish(c, fault) ==
    /\ pc[c] = "consume"
    /\ fault = "none" => channel = "open"
    /\ IF fault = "none"
       THEN /\ pc' = [pc EXCEPT ![c] = "publish"]
            /\ UNCHANGED <<rpcResult, opResult, consumer>>
       ELSE /\ EndCall(c, Raised(RawError(fault)))
            /\ UNCHANGED consumer
    /\ UNCHANGED <<gateVars, webVars, connVars, adapter, callPayload, tryFault, connection, channel, exchange, op, correlation_id,
                   queue, future, published, delivered, acked, callbackErrors,
                   lastDelivery, now, deadline, raised, response,
                   cancels>>

\* consumer_tag = await callback_queue.consume(on_response) (line 101,
\* outside the try block).
Consume(c, fault) ==
    /\ pc[c] = "consume"
    /\ fault = "none" => channel = "open"
    /\ IF fault = "none"
       THEN /\ consumer' = [consumer EXCEPT ![c] = "registered"]
            /\ pc' = [pc EXCEPT ![c] = "publish"]
            /\ UNCHANGED <<rpcResult, opResult>>
       ELSE /\ EndCall(c, Raised(RawError(fault)))
            /\ UNCHANGED consumer
    /\ UNCHANGED <<gateVars, webVars, connVars, adapter, callPayload, tryFault, connection, channel, exchange, op, correlation_id,
                   queue, future, published, delivered, acked, callbackErrors,
                   lastDelivery, now, deadline, raised, response,
                   cancels>>

\* await self._exchange.publish(...) (lines 105-113): on success wait_for
\* starts; a fault is caught by the except clauses and the finally follows.
Publish(c, fault) ==
    /\ pc[c] = "publish"
    /\ fault = "none" => (exchange = "None" \/ (channel = "open" /\ exchange = "declared"))
    /\ IF exchange = "None"
       THEN \* self._exchange is None: the attribute lookup raises
            /\ fault = "none"
            /\ raised' = [raised EXCEPT ![c] = TryFaultRaised("AttributeError")]
            /\ pc' = [pc EXCEPT ![c] = "finally"]
            /\ UNCHANGED <<published, deadline, tryFault>>
       ELSE IF fault = "none"
       THEN /\ published' = [published EXCEPT ![c] = Append(@, RequestMessage(c))]
            /\ deadline' = [deadline EXCEPT ![c] = now + DefaultTimeout]
            /\ pc' = [pc EXCEPT ![c] = "wait_for"]
            /\ UNCHANGED <<raised, tryFault>>
       ELSE /\ raised' = [raised EXCEPT ![c] = TryFaultRaised(fault)]
            /\ tryFault' = [tryFault EXCEPT ![c] =
                                IF IsAMQPError(fault) THEN "publish" ELSE @]
            /\ pc' = [pc EXCEPT ![c] = "finally"]
            /\ UNCHANGED <<published, deadline>>
    /\ UNCHANGED <<gateVars, webVars, connVars, adapter, callPayload, connection, channel, exchange, op, correlation_id,
                   queue, consumer, future, delivered, acked, callbackErrors,
                   lastDelivery, now, response, cancels, rpcResult,
                   opResult>>

\* Variant of on_response without the correlation id comparison.
on_response_AnyId(c, m) ==
    IF future[c].state = "pending"
    THEN /\ future' = [future EXCEPT ![c] = [state |-> "result", msg |-> m]]
         /\ acked' = [acked EXCEPT ![c] = @ + 1]
         /\ UNCHANGED callbackErrors
    ELSE /\ callbackErrors' = [callbackErrors EXCEPT ![c] = @ + 1]
         /\ UNCHANGED <<future, acked>>

\* on_response(received_message) of call c (lines 96-99): a message with
\* the call's correlation id resolves the future and is acknowledged;
\* set_result on a future that is already done or cancelled raises
\* InvalidStateError before the ack; any other message is left alone.
on_response(c, m) ==
    IF m.correlation_id = correlation_id[c]
    THEN IF future[c].state = "pending"
         THEN /\ future' = [future EXCEPT ![c] = [state |-> "result", msg |-> m]]
              /\ acked' = [acked EXCEPT ![c] = @ + 1]
              /\ UNCHANGED callbackErrors
         ELSE /\ callbackErrors' = [callbackErrors EXCEPT ![c] = @ + 1]
              /\ UNCHANGED <<future, acked>>
    ELSE UNCHANGED <<future, acked, callbackErrors>>

\* The broker delivers a message to the consumer of call c.  A reply exists
\* only once the request, which names the reply queue, has been published.
Deliver(c, k, e) ==
    /\ consumer[c] = "registered"
    /\ channel = "open"
    /\ Len(published[c]) > 0
    /\ delivered[c] < MaxDeliveries
    /\ delivered' = [delivered EXCEPT ![c] = @ + 1]
    /\ lastDelivery' = [to |-> c, correlation_id |-> k]
    /\ on_response(c, Message(k, e))
    /\ UNCHANGED <<gateVars, webVars, connVars, adapter, callPayload, tryFault, connection, channel, exchange, pc, op,
                   correlation_id, queue, consumer, published, now, deadline, raised, response, cancels, rpcResult, opResult>>

\* The event loop's clock advances while some call is waiting.
Tick ==
    /\ now < MaxTime
    /\ \E c \in Calls : pc[c] = "wait_for" /\ future[c].state = "pending"
    /\ now' = now + 1
    /\ UNCHANGED <<gateVars, webVars, connVars, adapter, callPayload, tryFault, connection, channel, exchange, pc, op,
                   correlation_id, queue, consumer, future, published,
                   delivered, acked, callbackErrors, lastDelivery, deadline, raised, response, cancels, rpcResult, opResult>>

\* Variant of the timeout path in which the expiry cancels every pending
\* future of the adapter, not only the caller's.
TimeoutExpires_Shared(c) ==
    /\ pc[c] = "wait_for"
    /\ future[c].state = "pending"
    /\ now >= deadline[c]
    /\ future' = [d \in Calls |->
                    IF future[d].state = "pending"
                    THEN [future[d] EXCEPT !.state = "cancelled"] ELSE future[d]]
    /\ deadline' = [deadline EXCEPT ![c] = 0]
    /\ raised' = [raised EXCEPT ![c] = TimeoutRaised(adapter)]
    /\ pc' = [pc EXCEPT ![c] = "finally"]
    /\ UNCHANGED <<gateVars, webVars, connVars, adapter, callPayload, tryFault, connection, channel, exchange, op, correlation_id,
                   queue, consumer, published, delivered, acked,
                   callbackErrors, lastDelivery, now, response,
                   cancels, rpcResult, opResult>>

\* Variant of the timeout path that publishes the request again instead
\* of raising.
TimeoutExpires_Retry(c) ==
    /\ pc[c] = "wait_for"
    /\ future[c].state = "pending"
    /\ now >= deadline[c]
    /\ deadline' = [deadline EXCEPT ![c] = 0]
    /\ pc' = [pc EXCEPT ![c] = "publish"]
    /\ UNCHANGED <<gateVars, webVars, connVars, adapter, callPayload, tryFault, connection, channel, exchange, op, correlation_id,
                   queue, consumer, future, published, delivered, acked,
                   callbackErrors, lastDelivery, now, raised, response,
                   cancels, rpcResult, opResult>>

\* Variant of the timeout path that raises without running the finally
\* clause: the consumer is left registered.
TimeoutExpires_NoFinally(c) ==
    /\ pc[c] = "wait_for"
    /\ future[c].state = "pending"
    /\ now >= deadline[c]
    /\ future' = [future EXCEPT ![c].state = "cancelled"]
    /\ deadline' = [deadline EXCEPT ![c] = 0]
    /\ raised' = [raised EXCEPT ![c] = TimeoutRaised(adapter)]
    /\ EndCall(c, Raised(TimeoutRaised(adapter)))
    /\ UNCHANGED <<gateVars, webVars, connVars, adapter, callPayload, tryFault, connection, channel, exchange, op, correlation_id,
                   queue, consumer, published, delivered, acked,
                   callbackErrors, lastDelivery, now, response, cancels>>

\* Variant of the timeout path that expires whether or not the future has
\* been resolved in the meantime.
TimeoutExpires_AfterResult(c) ==
    /\ pc[c] = "wait_for"
    /\ now >= deadline[c]
    /\ future' = [future EXCEPT ![c].state = "cancelled"]
    /\ deadline' = [deadline EXCEPT ![c] = 0]
    /\ raised' = [raised EXCEPT ![c] = TimeoutRaised(adapter)]
    /\ pc' = [pc EXCEPT ![c] = "finally"]
    /\ UNCHANGED <<gateVars, webVars, connVars, adapter, callPayload, tryFault, connection, channel, exchange, op, correlation_id,
                   queue, consumer, published, delivered, acked,
                   callbackErrors, lastDelivery, now, response,
                   cancels, rpcResult, opResult>>

\* asyncio.wait_for(future, timeout) expires (lines 116, 128-134): the
\* future is cancelled and TimeoutError reaches the except clause.
TimeoutExpires(c) ==
    /\ pc[c] = "wait_for"
    /\ future[c].state = "pending"
    /\ now >= deadline[c]
    /\ future' = [future EXCEPT ![c].state = "cancelled"]
    /\ deadline' = [deadline EXCEPT ![c] = 0]
    /\ raised' = [raised EXCEPT ![c] = TimeoutRaised(adapter)]
    /\ pc' = [pc EXCEPT ![c] = "finally"]
    /\ UNCHANGED <<gateVars, webVars, connVars, adapter, callPayload, tryFault, connection, channel, exchange, op, correlation_id,
                   queue, consumer, published, delivered, acked,
                   callbackErrors, lastDelivery, now, response,
                   cancels, rpcResult, opResult>>

\* wait_for returns the message the future was resolved with; the body is
\* decoded and the RabbitMQResponse built (lines 116-126).  A body that does
\* not decode raises inside the try block and reaches `except Exception`.
ReplyReceived(c) ==
    /\ pc[c] = "wait_for"
    /\ future[c].state = "result"
    /\ deadline' = [deadline EXCEPT ![c] = 0]
    /\ IF future[c].msg.envelope.json = "object"
       THEN /\ response' = [response EXCEPT ![c] =
                                BuildResponse(adapter, future[c].msg.envelope)]
            /\ UNCHANGED raised
       ELSE /\ raised' = [raised EXCEPT ![c] = TryFaultRaised("JSONDecodeError")]
            /\ UNCHANGED response
    /\ pc' = [pc EXCEPT ![c] = "finally"]
    /\ UNCHANGED <<gateVars, webVars, connVars, adapter, callPayload, tryFault, connection, channel, exchange, op, correlation_id,
                   queue, consumer, future, published, delivered, acked,
                   callbackErrors, lastDelivery, now, cancels,
                   rpcResult, opResult>>

\* How the try statement ends when its finally clause ends with `fault`
\* ("none": the clause completes): the pending return or exception stands,
\* unless the finally clause itself raises, which replaces it.
TryOutcome(c, fault) ==
    IF fault # "none" THEN Raised(RawError(fault))
    ELSE IF raised[c] # NoError THEN Raised(raised[c])
    ELSE Returned(response[c])

\* Variant of the finally block that also closes the shared channel when
\* the call ends.
CancelConsumer_ClosesChannel(c, fault) ==
    /\ pc[c] = "finally"
    /\ fault = "none" => channel = "open"
    /\ cancels' = [cancels EXCEPT ![c] = @ + 1]
    /\ consumer' = [consumer EXCEPT ![c] = "cancelled"]
    /\ queue' = [queue EXCEPT ![c] = "deleted"]
    /\ channel' = "closed"
    /\ exchange' = IF exchange = "declared" THEN "stale" ELSE exchange
    /\ EndCall(c, TryOutcome(c, fault))
    /\ UNCHANGED <<gateVars, webVars, connVars, adapter, callPayload, tryFault, connection, op, correlation_id,
                   future, published, delivered, acked, callbackErrors,
                   lastDelivery, now, deadline, raised, response>>

\* finally: await callback_queue.cancel(consumer_tag) (lines 149-150).  The
\* consumer registration ends either way: a cancel that raises does so
\* because the channel is gone, and the registration with it.  The
\* auto-delete queue goes with its last consumer.  On a channel that is
\* not open the cancel can only raise.
CancelConsumer(c, fault) ==
    /\ pc[c] = "finally"
    /\ fault = "none" => channel = "open"
    /\ cancels' = [cancels EXCEPT ![c] = @ + 1]
    /\ consumer' = [consumer EXCEPT ![c] = "cancelled"]
    /\ queue' = [queue EXCEPT ![c] = "deleted"]
    /\ EndCall(c, TryOutcome(c, fault))
    /\ UNCHANGED <<gateVars, webVars, connVars, adapter, callPayload, tryFault, connection, channel, exchange, op, correlation_id,
                   future, published, delivered, acked, callbackErrors,
                   lastDelivery, now, deadline, raised, response>>

\* The channel closes under the adapter (the broker closed it, or the
\* connection dropped): the exchange object now belongs to a closed
\* channel, and a call that is waiting for its reply has lost its consumer.
\* Nothing is raised into the waiting call.
LoseChannel ==
    /\ channel' = "closed"
    /\ exchange' = IF exchange = "declared" THEN "stale" ELSE exchange
    /\ tryFault' = [c \in Calls |->
                        IF pc[c] = "wait_for" /\ future[c].state = "pending"
                        THEN "wait" ELSE tryFault[c]]

ChannelCloses ==
    /\ channel = "open"
    /\ LoseChannel
    /\ UNCHANGED <<gateVars, webVars, connVars, adapter, callPayload, connection, pc, op, correlation_id, queue,
                   consumer, future, published, delivered, acked, callbackErrors,
                   lastDelivery, now, deadline, raised, response, cancels,
                   rpcResult, opResult>>

\* The connection closes, and its channel with it.
ConnectionCloses ==
    /\ connection = "open"
    /\ connection' = "closed"
    /\ IF channel = "open" THEN LoseChannel
       ELSE UNCHANGED <<channel, exchange, tryFault>>
    /\ UNCHANGED <<gateVars, webVars, connVars, adapter, callPayload, pc, op, correlation_id, queue,
                   consumer, future, published, delivered, acked, callbackErrors,
                   lastDelivery, now, deadline, raised, response, cancels,
                   rpcResult, opResult>>

\* The operation of call c has ended and a later request starts another
\* operation on the same adapter instance: the locals of the ended call are
\* gone, the instance keeps its connection, channel and exchange.
NextCall(c) ==
    /\ pc[c] = "done"
    /\ pc' = [pc EXCEPT ![c] = "idle"]
    /\ op' = [op EXCEPT ![c] = "none"]
    /\ correlation_id' = [correlation_id EXCEPT ![c] = 0]
    /\ queue' = [queue EXCEPT ![c] = "none"]
    /\ consumer' = [consumer EXCEPT ![c] = "none"]
    /\ future' = [future EXCEPT ![c] = NoFuture]
    /\ published' = [published EXCEPT ![c] = <<>>]
    /\ delivered' = [delivered EXCEPT ![c] = 0]
    /\ acked' = [acked EXCEPT ![c] = 0]
    /\ callbackErrors' = [callbackErrors EXCEPT ![c] = 0]
    /\ lastDelivery' = [to |-> 0, correlation_id |-> 0]
    /\ now' = IF \E d \in Calls : pc[d] = "wait_for" THEN now ELSE 0
    /\ raised' = [raised EXCEPT ![c] = NoError]
    /\ response' = [response EXCEPT ![c] = NoResponse]
    /\ cancels' = [cancels EXCEPT ![c] = 0]
    /\ rpcResult' = [rpcResult EXCEPT ![c] = NotEnded]
    /\ tryFault' = [tryFault EXCEPT ![c] = "none"]
    /\ opResult' = [opResult EXCEPT ![c] = NotEnded]
    /\ UNCHANGED <<gateVars, webVars, connVars, adapter, callPayload, connection, channel, exchange, deadline>>

(***************************************************************************)
(* The JWT validator.                                                      *)
(*                                                                         *)
(* A token is what jwt.decode can tell about it: whether its segments      *)
(* parse, whether the signature verifies under the public key, how many    *)
(* seconds ago it expired (age = now - exp, negative while it is still     *)
(* valid) and the claims of its payload.  The payload is a mapping; a      *)
(* claim may be absent.                                                    *)
(***************************************************************************)
Roles == {"user", "css_employee", "css_admin"}

TokenTypes == {"access", "refresh"}

Ages == {-60, 5, 60}

\* The payloads: token_type absent or present, roles absent or present.
Payloads ==
    {[sub |-> "u1"]}
    \cup {[sub |-> "u1", token_type |-> t] : t \in TokenTypes}
    \cup {[sub |-> "u1", roles |-> r] : r \in SUBSET Roles}
    \cup {[sub |-> "u1", token_type |-> t, roles |-> r] :
            t \in TokenTypes, r \in SUBSET Roles}

Tokens ==
    {[wellformed |-> TRUE, signature |-> sig, age |-> a, payload |-> p] :
        sig \in {"valid", "invalid"}, a \in Ages, p \in Payloads}
    \cup {[wellformed |-> FALSE, signature |-> "invalid", age |-> 0,
           payload |-> [sub |-> "u1"]]}

\* How a call of the validator (or of a use case) ended.
NotCalled == [kind |-> "none", error |-> NoError, value |-> [sub |-> "none"]]

ReturnedPayload(p) == [kind |-> "return", error |-> NoError, value |-> p]

RaisedError(e) == [kind |-> "raise", error |-> e, value |-> [sub |-> "none"]]

\* jwt.decode(token, public_key, algorithms, leeway=10): the payload, or
\* the jwt exception class it raises.
jwt_decode(token) ==
    IF ~token.wellformed THEN [ok |-> FALSE, exc |-> "DecodeError"]
    ELSE IF token.signature # "valid"
    THEN [ok |-> FALSE, exc |-> "InvalidSignatureError"]
    ELSE IF token.age >= JwtLeeway
    THEN [ok |-> FALSE, exc |-> "ExpiredSignatureError"]
    ELSE [ok |-> TRUE, exc |-> "none"]

\* Variant of the role check that is satisfied by any one required role.
CheckRoles_Any(payload, required_roles, i) ==
    IF "roles" \notin DOMAIN payload THEN RaisedError(RawError("KeyError"))
    ELSE IF \E j \in 1..Len(required_roles) : required_roles[j] \in payload.roles
    THEN ReturnedPayload(payload)
    ELSE RaisedError(ApiGatewayError(403,
            "You don't have permission to access this resource."))

\* The loop over required_roles: the first role missing from
\* payload['roles'] raises 403; payload['roles'] itself raises KeyError
\* when the claim is absent.
RECURSIVE CheckRoles(_, _, _)
CheckRoles(payload, required_roles, i) ==
    IF i > Len(required_roles) THEN ReturnedPayload(payload)
    ELSE IF "roles" \notin DOMAIN payload THEN RaisedError(RawError("KeyError"))
    ELSE IF required_roles[i] \notin payload.roles
    THEN RaisedError(ApiGatewayError(403,
            "You don't have permission to access this resource."))
    ELSE CheckRoles(payload, required_roles, i + 1)

\* Variant of validate_token without the token_type comparison.
validate_token_AnyType(token, required_token_type, required_roles) ==
    LET d == jwt_decode(token)
    IN  IF ~d.ok
        THEN RaisedError(ApiGatewayError(401, "Invalid token."))
        ELSE IF "token_type" \notin DOMAIN token.payload
        THEN RaisedError(RawError("KeyError"))
        ELSE IF required_roles = <<>>
        THEN ReturnedPayload(token.payload)
        ELSE CheckRoles(token.payload, required_roles, 1)

\* JWTValidator.validate_token(token, required_token_type, required_roles).
\* required_roles is a list; the empty list stands for None as well (both
\* are falsy).
validate_token(token, required_token_type, required_roles) ==
    LET d == jwt_decode(token)
    IN  IF ~d.ok
        THEN IF d.exc = "InvalidSignatureError"
             THEN RaisedError(ApiGatewayError(401, "Invalid token signature."))
             ELSE IF d.exc = "ExpiredSignatureError"
             THEN RaisedError(ApiGatewayError(401, "Expired token signature."))
             ELSE RaisedError(ApiGatewayError(401, "Invalid token."))
        ELSE IF "token_type" \notin DOMAIN token.payload
        THEN RaisedError(RawError("KeyError"))
        ELSE IF token.payload.token_type # required_token_type
        THEN RaisedError(ApiGatewayError(401, "Invalid token."))
        ELSE IF required_roles = <<>>
        THEN ReturnedPayload(token.payload)
        ELSE CheckRoles(token.payload, required_roles, 1)

\* The required_roles lists the validator is exercised with.
RoleLists ==
    {<<>>, <<"user">>, <<"css_admin">>, <<"user", "css_admin">>,
     <<"css_admin", "user">>, <<"css_employee", "css_admin">>}

\* The use cases and service methods: the three authorized payment use
\* cases, AuthService.refresh and RefreshUseCase.execute.
UseCases == {"add_bank_card", "add_bank_account", "p2b_transfer"}

GateOps == UseCases \cup {"service_refresh", "use_case_refresh"}

\* The role each payment use case requires (always of an access token).
RequiredRoles(o) ==
    IF o = "add_bank_account" THEN <<"css_admin">> ELSE <<"user">>

\* What a use case's execute does up to its first await: the validate_token
\* call it makes (or NotCalled), whether it goes on to invoke the backend
\* adapter, and the exception it raises otherwise.
Outcome(v, invokes, e) == [validation |-> v, invokes |-> invokes, error |-> e]

\* AddBankCardUseCase.execute: validate, build and validate the card, then
\* await the payment adapter.
AddBankCardExecute(t, card_ok) ==
    LET v == validate_token(t, "access", RequiredRoles("add_bank_card"))
    IN  IF v.kind = "raise" THEN Outcome(v, FALSE, v.error)
        ELSE IF ~card_ok THEN Outcome(v, FALSE, RawError("CardValidationError"))
        ELSE Outcome(v, TRUE, NoError)

\* Variant of the use case that goes on to the backend whatever the
\* validator did.
AddBankAccountExecute_Unchecked(t) ==
    LET v == validate_token(t, "access", RequiredRoles("add_bank_account"))
    IN  Outcome(v, TRUE, NoError)

\* AddBankAccountUseCase.execute: validate, then await the HTTP adapter.
AddBankAccountExecute(t) ==
    LET v == validate_token(t, "access", RequiredRoles("add_bank_account"))
    IN  IF v.kind = "raise" THEN Outcome(v, FALSE, v.error)
        ELSE Outcome(v, TRUE, NoError)

\* ProceedP2BTransactionUseCase.execute: validate, then await the HTTP adapter.
P2BTransactionExecute(t) ==
    LET v == validate_token(t, "access", RequiredRoles("p2b_transfer"))
    IN  IF v.kind = "raise" THEN Outcome(v, FALSE, v.error)
        ELSE Outcome(v, TRUE, NoError)

\* AuthService.refresh: it calls self.jwt_validator.validate_jwt_token, a
\* method JWTValidator does not have, so the attribute lookup raises
\* before any validation and before the adapter is reached.
ServiceRefresh(t) == Outcome(NotCalled, FALSE, RawError("AttributeError"))

\* RefreshUseCase.execute: passes its argument straight to the adapter.
RefreshUseCaseExecute(t) == Outcome(NotCalled, TRUE, NoError)

Execute(o, t, card_ok) ==
    CASE o = "add_bank_card" -> AddBankCardExecute(t, card_ok)
      [] o = "add_bank_account" -> AddBankAccountExecute(t)
      [] o = "p2b_transfer" -> P2BTransactionExecute(t)
      [] o = "service_refresh" -> ServiceRefresh(t)
      [] o = "use_case_refresh" -> RefreshUseCaseExecute(t)

\* The use case runs up to its await of the backend adapter, or ends.
GateExecute ==
    /\ gPc = "start"
    /\ LET r == Execute(gOp, gToken, gCard)
       IN  /\ gValidation' = r.validation
           /\ IF r.invokes
              THEN /\ gBackendCalls' = gBackendCalls + 1
                   /\ gPc' = "backend"
                   /\ UNCHANGED gResult
              ELSE /\ gResult' = RaisedError(r.error)
                   /\ gPc' = "done"
                   /\ UNCHANGED gBackendCalls
    /\ UNCHANGED <<rpcVars, webVars, gToken, gRequiredType, gRequiredRoles, gOp, gCard>>

\* The errors a backend adapter may raise to the use case.
BackendErrors ==
    {PaymentServiceError(504, "timeout"), AuthServiceError(401, "bad creds"),
     RabbitMQError(503, "RabbitMQ communication error.")}

\* The awaited backend adapter call ends; the use case returns its result
\* or lets its exception propagate.
GateBackendReturns(r) ==
    /\ gPc = "backend"
    /\ gResult' = r
    /\ gPc' = "done"
    /\ UNCHANGED <<rpcVars, webVars, gToken, gRequiredType, gRequiredRoles, gValidation,
                   gOp, gCard, gBackendCalls>>

\* A direct call of validate_token with the arguments drawn by Init.
ValidateToken ==
    /\ gPc = "start"
    /\ gValidation' = validate_token(gToken, gRequiredType, gRequiredRoles)
    /\ gPc' = "done"
    /\ UNCHANGED <<rpcVars, webVars, gToken, gRequiredType, gRequiredRoles, gOp, gCard,
                   gBackendCalls, gResult>>

(***************************************************************************)
(* The HTTP layer: routes, ExceptionMiddleware.dispatch and the HTTP       *)
(* payment client.                                                         *)
(***************************************************************************)
\* src/domain/exceptions.py: plain Exception subclasses with a detail and
\* no status code.
DomainClasses ==
    {"NotFoundException", "UnauthorizedException", "AccessDeniedException",
     "SourceTimeoutException", "SourceUnavailableException",
     "ConflictException", "UnhandledException"}

DefaultDetail(cls) ==
    CASE cls = "NotFoundException" -> "Not found."
      [] cls = "UnauthorizedException" ->
            "Unauthorized. Provided credentials or token have expired or invalid."
      [] cls = "AccessDeniedException" -> "Access denied."
      [] cls = "SourceTimeoutException" -> "Source timeout exceeded."
      [] cls = "SourceUnavailableException" -> "Source is not available."
      [] cls = "ConflictException" -> "Conflict."
      [] cls = "UnhandledException" -> "Unknown error occurred."

DomainError(cls, detail) == [cls |-> cls, status_code |-> 0, detail |-> detail]

HTTPException(status_code, detail) ==
    [cls |-> "HTTPException", status_code |-> status_code, detail |-> detail]

\* A JSON response: its status and the keys of its content this model
\* follows ("None" for an absent key).
JSONResponse(status_code, success, message, detail) ==
    [status_code |-> status_code, success |-> success, message |-> message,
     detail |-> detail]

NoJson == JSONResponse(0, None, None, None)

\* How a route or the middleware ended: with a response, with None, or
\* with an exception that propagates.
Responded(r) == [kind |-> "response", response |-> r, error |-> NoError]

Propagated(e) == [kind |-> "raise", response |-> NoJson, error |-> e]

ReturnedNone == [kind |-> "none", response |-> NoJson, error |-> NoError]

NoOutcome == [kind |-> "pending", response |-> NoJson, error |-> NoError]

ServiceOk == [kind |-> "return", error |-> NoError]

ServiceRaises(e) == [kind |-> "raise", error |-> e]

AuthRoutes == {"login", "refresh", "register", "test_token"}

PaymentRoutes == {"p2b_transfer", "add_bank_card", "add_bank_account"}

\* The status of a route's normal response.
SuccessStatus(route) ==
    IF route \in {"login", "refresh", "test_token"} THEN 200 ELSE 201

SuccessMessage(route) ==
    CASE route = "login" -> "Logged in successfully."
      [] route = "refresh" -> "Tokens have been refreshed successfully."
      [] route = "register" -> "User registered successfully."
      [] route = "test_token" -> None
      [] route = "p2b_transfer" -> None
      [] OTHER -> "Payment method added successfully."

\* The exception named by the last except clause of the auth routes,
\* `except UnhandledException or Exception`: the value of the expression
\* `UnhandledException or Exception`, which is its first operand, a class
\* being truthy.
LastClause == "UnhandledException"

\* Variant of the routes' except clauses without the clause for
\* SourceTimeoutException.
ExceptClauses_NoTimeout(route) ==
    CASE route \in {"login", "refresh", "test_token"} ->
            << <<"UnauthorizedException", 401, "exc">>,
               <<"SourceUnavailableException", 503,
                 "Currently, login service is not available. Try again later.">>,
               <<LastClause, 500, "An unexpected error occurred.">> >>
      [] route = "register" ->
            << <<"ConflictException", 409,
                 "This email or phone number is already taken.">>,
               <<LastClause, 500, "An unexpected error occurred.">> >>
      [] OTHER -> << >>

\* The except clauses of a route, in order: the class caught, and the
\* status and detail of the HTTPException raised for it ("exc" for the
\* exception's own detail).
ExceptClauses(route) ==
    CASE route = "login" ->
            << <<"UnauthorizedException", 401, "exc">>,
               <<"SourceUnavailableException", 503,
                 "Currently, login service is not available. Try again later.">>,
               <<"SourceTimeoutException", 504,
                 "Login service took too long to respond.">>,
               <<LastClause, 500, "An unexpected error occurred.">> >>
      [] route \in {"refresh", "test_token"} ->
            << <<"UnauthorizedException", 401, "exc">>,
               <<"SourceUnavailableException", 503,
                 "Currently, tokens refresh service is not available. Try again later.">>,
               <<"SourceTimeoutException", 504,
                 "Token refresh service took too long to respond.">>,
               <<LastClause, 500, "An unexpected error occurred.">> >>
      [] route = "register" ->
            << <<"SourceUnavailableException", 503,
                 "Currently, the registration service is not available. Please try again later.">>,
               <<"SourceTimeoutException", 504,
                 "The registration service took too long to respond. Please try again later.">>,
               <<"ConflictException", 409,
                 "This email or phone number is already taken.">>,
               <<LastClause, 500, "An unexpected error occurred.">> >>
      [] OTHER -> << >>

\* The first except clause that names the class of the exception (the
\* domain exceptions derive from Exception directly), 0 when none does.
MatchingClause(clauses, cls) ==
    IF \E i \in 1..Len(clauses) : clauses[i][1] = cls
    THEN CHOOSE i \in 1..Len(clauses) :
            /\ clauses[i][1] = cls
            /\ \A j \in 1..(i - 1) : clauses[j][1] # cls
    ELSE 0

\* A route function: the normal response, the HTTPException of the
\* matching except clause, or the service's exception itself when no
\* clause names its class.
RouteHandler(route, outcome) ==
    IF outcome.kind = "return"
    THEN Responded(JSONResponse(SuccessStatus(route),
                                IF route = "test_token" THEN None ELSE "True",
                                SuccessMessage(route), None))
    ELSE LET clauses == ExceptClauses(route)
             i == MatchingClause(clauses, outcome.error.cls)
         IN  IF i = 0
             THEN Propagated(outcome.error)
             ELSE Propagated(HTTPException(clauses[i][2],
                      IF clauses[i][3] = "exc" THEN outcome.error.detail
                      ELSE clauses[i][3]))

\* What call_next gives the middleware: an HTTPException raised by a
\* route has been rendered as {"detail": ...} with its status before the
\* middleware sees the outcome; any other exception reaches dispatch.
call_next(r) ==
    IF r.kind = "raise" /\ r.error.cls = "HTTPException"
    THEN Responded(JSONResponse(r.error.status_code, None, None, r.error.detail))
    ELSE r

Failure(status_code, message) ==
    Responded(JSONResponse(status_code, "False", message, None))

\* ExceptionMiddleware.dispatch: the response of call_next, or the
\* response of the first branch that matches the exception; an if/elif
\* chain without a matching branch falls off the end of the method, which
\* then returns None.
dispatch(inner) ==
    IF inner.kind # "raise" THEN inner
    ELSE LET exc == inner.error
             code == exc.status_code
             SomethingWentWrong == "Something went wrong. Please try again later."
             DoubleCheck ==
                "The server could not handle your request. Please, double check the data you are sending."
         IN  CASE exc.cls = "ApiGatewayError" ->
                    IF code \in {401, 403} THEN Failure(code, exc.detail)
                    ELSE IF code = 500 THEN Failure(500, SomethingWentWrong)
                    ELSE ReturnedNone
               [] exc.cls = "AuthServiceError" ->
                    IF code = 401 THEN Failure(401, "Login or password are incorrect.")
                    ELSE IF code = 403 THEN Failure(403, "User account is inactive.")
                    ELSE IF code = 404 THEN Failure(404, "User not found.")
                    ELSE IF code = 500 THEN Failure(500, exc.detail)
                    ELSE IF code = 504 THEN Failure(504, SomethingWentWrong)
                    ELSE ReturnedNone
               [] exc.cls = "PaymentServiceError" ->
                    IF code \in {504, 500} THEN Failure(code, SomethingWentWrong)
                    ELSE IF code = 422 THEN Failure(422, DoubleCheck)
                    ELSE IF code \in {409, 404, 403} THEN Failure(code, exc.detail)
                    ELSE IF code = 400 THEN Failure(400, DoubleCheck)
                    ELSE ReturnedNone
               [] exc.cls = "RabbitMQError" -> Failure(503, SomethingWentWrong)
               [] exc.cls = "HTTPException" -> Failure(code, exc.detail)
               [] OTHER -> Propagated(exc)

\* The errors the validator and the adapters raise, by class and status.
ValidatorErrors ==
    {ApiGatewayError(c, "detail") : c \in {401, 403, 500}}

AuthAdapterErrors ==
    {AuthServiceError(c, "detail") : c \in AuthHandledCodes \cup {500, 504}}
        \cup {ApiGatewayError(500, "detail"),
              RabbitMQError(503, "RabbitMQ service is unavailable")}

PaymentAdapterErrors ==
    {PaymentServiceError(c, "detail") :
            c \in PaymentHandledCodes \cup {404, 409, 422, 500, 504}}
        \cup {ApiGatewayError(500, "detail"),
              RabbitMQError(503, "RabbitMQ service is unavailable")}

\* How the service behind a route can end: normally, with a domain
\* exception, with an error of the validator or of its adapter, or with
\* an exception outside both taxonomies (the AttributeError of a call to
\* a method that does not exist, or any other Exception).
ServiceOutcomes(route) ==
    LET DomainErrors ==
            {DomainError(cls, DefaultDetail(cls)) : cls \in DomainClasses}
                \cup {DomainError("UnauthorizedException", "Token has expired.")}
        UnexpectedErrors == {RawError("AttributeError"), RawError("Exception")}
    IN  {ServiceOk}
            \cup {ServiceRaises(e) : e \in ValidatorErrors \cup UnexpectedErrors}
            \cup IF route \in AuthRoutes
                 THEN {ServiceRaises(e) : e \in DomainErrors \cup AuthAdapterErrors}
                 ELSE {ServiceRaises(e) : e \in PaymentAdapterErrors}

\* A request arrives at a route and the route awaits its service.
ApiRequest(route, outcome) ==
    /\ wPc = "idle"
    /\ outcome \in ServiceOutcomes(route)
    /\ wRoute' = route
    /\ wService' = outcome
    /\ wPc' = "route"
    /\ UNCHANGED <<rpcVars, gateVars, wRouteResult, wResult, hPc, hOutcome, hResult>>

\* The route function ends.
RouteReturns ==
    /\ wPc = "route"
    /\ wRouteResult' = RouteHandler(wRoute, wService)
    /\ wPc' = "dispatch"
    /\ UNCHANGED <<rpcVars, gateVars, wRoute, wService, wResult, hPc, hOutcome, hResult>>

\* ExceptionMiddleware.dispatch ends.
DispatchReturns ==
    /\ wPc = "dispatch"
    /\ wResult' = dispatch(call_next(wRouteResult))
    /\ wPc' = "done"
    /\ UNCHANGED <<rpcVars, gateVars, wRoute, wService, wRouteResult, hPc, hOutcome, hResult>>

\* httpx: ConnectTimeout and ReadTimeout derive from TimeoutException,
\* ConnectError and TimeoutException derive from TransportError, which
\* derives from RequestError; HTTPStatusError derives from HTTPError only.
IsTimeoutException(cls) == cls \in {"ConnectTimeout", "ReadTimeout"}

IsRequestError(cls) == cls = "ConnectError" \/ IsTimeoutException(cls)

\* The statuses the payment backend answers with.
HttpStatuses == {200, 201, 400, 403, 404, 409, 422, 500, 502}

\* The body of the backend's answer: a JSON object with or without the
\* key the client reads, another JSON value, or no JSON at all.
HttpBodies == {"object", "object_without_key", "array", "not_json"}

HttpAnswer(status_code, body) ==
    [kind |-> "answer", status_code |-> status_code, body |-> body,
     cls |-> "none", refused |-> FALSE]

HttpRaises(cls, refused) ==
    [kind |-> "raise", status_code |-> 0, body |-> "none", cls |-> cls,
     refused |-> refused]

\* How client.request can end.
HttpOutcomes ==
    {HttpAnswer(c, b) : c \in HttpStatuses, b \in HttpBodies}
        \cup {HttpRaises("ConnectError", r) : r \in BOOLEAN}
        \cup {HttpRaises(cls, FALSE) :
                    cls \in {"ConnectTimeout", "ReadTimeout", "ValueError"}}

\* PaymentHttpClient._handle_payment_service_error: every branch raises
\* PaymentServiceError with the backend's status.  e.response.json() and
\* dict(...) run first and raise on a body that is no JSON object.
handle_payment_service_error(o) ==
    IF o.body = "not_json" THEN Propagated(RawError("JSONDecodeError"))
    ELSE IF o.body = "array" THEN Propagated(RawError("ValueError"))
    ELSE LET code == o.status_code
         IN  Propagated(PaymentServiceError(code,
                CASE code = 400 -> "Bad request. From Payment Service: detail"
                  [] code = 403 -> "Forbidden. From Payment Service: detail"
                  [] code = 404 -> "User or company with provided ID does not exist."
                  [] code = 409 -> "Conflict. detail"
                  [] code = 422 -> "Unprocessable Entity. From Payment Service: detail"
                  [] code = 500 -> "Internal Server Error. From Payment Service: detail"
                  [] OTHER -> "Unexpected error from Payment Service: detail."))

\* PaymentHttpClient._request: the except clauses are tried in order, so
\* the clause for RequestError takes every exception of a class derived
\* from it, the timeout classes included.
request(o) ==
    IF o.kind = "answer" /\ o.status_code >= 400
    THEN handle_payment_service_error(o)
    ELSE IF o.kind = "raise" /\ IsRequestError(o.cls)
    THEN IF o.refused
         THEN Propagated(PaymentServiceError(504, "Payment Service is not available."))
         ELSE Propagated(ApiGatewayError(500, "request error"))
    ELSE IF o.kind = "raise" /\ IsTimeoutException(o.cls)
    THEN Propagated(PaymentServiceError(504, "timed out"))
    ELSE IF o.kind = "raise" THEN Propagated(RawError(o.cls))
    ELSE IF o.body = "not_json"
    THEN Propagated(ApiGatewayError(500, "Invalid JSON response."))
    ELSE IF o.body = "array"
    THEN Propagated(ApiGatewayError(500, "Invalid response format."))
    ELSE IF o.body = "object_without_key"
    THEN Propagated(ApiGatewayError(500, "Error processing response data."))
    ELSE Responded(JSONResponse(o.status_code, None, None, None))

\* The client sends a request; the backend answers or httpx raises.
HttpRequest(o) ==
    /\ hPc = "idle"
    /\ hOutcome' = o
    /\ hPc' = "sent"
    /\ UNCHANGED <<rpcVars, gateVars, wRoute, wService, wPc, wRouteResult, wResult, hResult>>

\* _request ends.
HttpRequestReturns ==
    /\ hPc = "sent"
    /\ hResult' = request(hOutcome)
    /\ hPc' = "done"
    /\ UNCHANGED <<rpcVars, gateVars, wRoute, wService, wPc, wRouteResult, wResult, hOutcome>>

\* No request at the HTTP layer.
WebIdle ==
    /\ wRoute = "none"
    /\ wService = ServiceOk
    /\ wPc = "idle"
    /\ wRouteResult = NoOutcome
    /\ wResult = NoOutcome
    /\ hPc = "idle"
    /\ hOutcome = HttpAnswer(0, "none")
    /\ hResult = NoOutcome

(***************************************************************************)
(* Initial states and specifications.                                      *)
(***************************************************************************)
\* The adapter instance right after __init__, no call started.
RpcInit ==
    /\ adapter \in Adapters
    /\ connection = "None"
    /\ channel = "None"
    /\ exchange = "None"
    /\ pc = [c \in Calls |-> "idle"]
    /\ op = [c \in Calls |-> "none"]
    /\ callPayload = [c \in Calls |-> NoPayload]
    /\ correlation_id = [c \in Calls |-> 0]
    /\ queue = [c \in Calls |-> "none"]
    /\ consumer = [c \in Calls |-> "none"]
    /\ future = [c \in Calls |-> NoFuture]
    /\ published = [c \in Calls |-> <<>>]
    /\ delivered = [c \in Calls |-> 0]
    /\ acked = [c \in Calls |-> 0]
    /\ callbackErrors = [c \in Calls |-> 0]
    /\ lastDelivery = [to |-> 0, correlation_id |-> 0]
    /\ now = 0
    /\ deadline = [c \in Calls |-> 0]
    /\ raised = [c \in Calls |-> NoError]
    /\ response = [c \in Calls |-> NoResponse]
    /\ cancels = [c \in Calls |-> 0]
    /\ rpcResult = [c \in Calls |-> NotEnded]
    /\ tryFault = [c \in Calls |-> "none"]
    /\ ConnInit
    /\ opResult = [c \in Calls |-> NotEnded]

\* A request with a token, before the use case or the validator runs.
GateInit ==
    /\ gToken \in Tokens
    /\ gRequiredType = "access"
    /\ gRequiredRoles = <<>>
    /\ gValidation = NotCalled
    /\ gOp \in GateOps
    /\ gCard \in BOOLEAN
    /\ gPc = "start"
    /\ gBackendCalls = 0
    /\ gResult = NotCalled

\* No request at the use cases.
GateIdle ==
    /\ gToken = [wellformed |-> FALSE, signature |-> "invalid", age |-> 0,
                payload |-> [sub |-> "u1"]]
    /\ gRequiredType = "access"
    /\ gRequiredRoles = <<>>
    /\ gValidation = NotCalled
    /\ gOp = "none"
    /\ gCard = FALSE
    /\ gPc = "idle"
    /\ gBackendCalls = 0
    /\ gResult = NotCalled

\* The operations the concurrent specification starts, one per adapter.
CoreOps == {"login", "add_bank_card"}

Init == RpcInit /\ GateIdle /\ WebIdle

\* The faults injected at the broker operations of a call: any fault at
\* connect and publish, where the class decides the error raised; one AMQP
\* fault at the operations outside the try block, which catch nothing.
StepFaults == {"AMQPChannelError"}

PublishFaults == {"AMQPChannelError", "OSError"}

Next ==
    \/ \E c \in Calls, o \in CoreOps : Begin(c, o, [email |-> "user@example.com"])
    \/ \E c \in Calls, s \in ConnectSteps, f \in BrokerFaults : Connect(c, s, f)
    \/ \E c \in Calls, f \in StepFaults \cup {"none"} : DeclareQueue(c, f)
    \/ \E c \in Calls, f \in StepFaults \cup {"none"} : Consume(c, f)
    \/ \E c \in Calls, f \in PublishFaults \cup {"none"} : Publish(c, f)
    \/ \E c \in Calls, k \in Calls, e \in CoreEnvelopes : Deliver(c, k, e)
    \/ Tick
    \/ \E c \in Calls : TimeoutExpires(c)
    \/ \E c \in Calls : ReplyReceived(c)
    \/ \E c \in Calls, f \in StepFaults \cup {"none"} : CancelConsumer(c, f)

Spec == Init /\ [][Next]_vars

\* One adapter operation, every operation and every reply envelope.
first == CHOOSE c \in Calls : \A d \in Calls : c <= d

NextOps ==
    \/ \E o \in Ops, p \in RpcPayloads : Begin(first, o, p)
    \/ \E s \in ConnectSteps, f \in BrokerFaults : Connect(first, s, f)
    \/ \E f \in StepFaults \cup {"none"} : DeclareQueue(first, f)
    \/ \E f \in StepFaults \cup {"none"} : Consume(first, f)
    \/ \E f \in PublishFaults \cup {"none"} : Publish(first, f)
    \/ \E k \in Calls, e \in AllEnvelopes : Deliver(first, k, e)
    \/ Tick
    \/ TimeoutExpires(first)
    \/ ReplyReceived(first)
    \/ \E f \in StepFaults \cup {"none"} : CancelConsumer(first, f)

SpecOps == Init /\ [][NextOps]_vars

\* Successive operations on one adapter instance whose connection and
\* channel may close at any time.
NextConnect ==
    \/ \E o \in CoreOps : Begin(first, o, [email |-> "user@example.com"])
    \/ \E s \in ConnectSteps, f \in BrokerFaults : Connect(first, s, f)
    \/ \E f \in StepFaults \cup {"none"} : DeclareQueue(first, f)
    \/ \E f \in StepFaults \cup {"none"} : Consume(first, f)
    \/ \E f \in PublishFaults \cup {"none"} : Publish(first, f)
    \/ \E e \in CoreEnvelopes : Deliver(first, first, e)
    \/ Tick
    \/ TimeoutExpires(first)
    \/ ReplyReceived(first)
    \/ \E f \in StepFaults \cup {"none"} : CancelConsumer(first, f)
    \/ ChannelCloses
    \/ ConnectionCloses
    \/ NextCall(first)

SpecConnect == Init /\ [][NextConnect]_vars

\* Concurrent callers of connect() on one adapter instance.
NextReconnect ==
    \/ \E c \in Callers : EnterConnect(c)
    \/ \E c \in Callers : ConnectRobustReturns(c)
    \/ \E c \in Callers : ChannelReturns(c)
    \/ \E c \in Callers : DeclareExchangeReturns(c)

SpecReconnect == Init /\ [][NextReconnect]_vars

\* One request through a route and the exception middleware, and one
\* request of the HTTP payment client.
NextApi ==
    \/ \E route \in AuthRoutes \cup PaymentRoutes :
          \E outcome \in ServiceOutcomes(route) : ApiRequest(route, outcome)
    \/ RouteReturns
    \/ DispatchReturns
    \/ \E o \in HttpOutcomes : HttpRequest(o)
    \/ HttpRequestReturns

SpecApi == Init /\ [][NextApi]_vars

\* The use cases behind the validator.
InitGate == RpcInit /\ adapter = "auth" /\ GateInit /\ WebIdle

NextGate ==
    \/ GateExecute
    \/ \E r \in {RaisedError(e) : e \in BackendErrors}
                \cup {ReturnedPayload([sub |-> "result"])} :
          GateBackendReturns(r)

SpecGate == InitGate /\ [][NextGate]_vars

\* validate_token on every token, required type and required roles.
InitValidator ==
    /\ RpcInit /\ adapter = "auth"
    /\ WebIdle
    /\ gToken \in Tokens
    /\ gRequiredType \in TokenTypes
    /\ gRequiredRoles \in RoleLists
    /\ gValidation = NotCalled
    /\ gOp = "validate_token"
    /\ gCard = FALSE
    /\ gPc = "start"
    /\ gBackendCalls = 0
    /\ gResult = NotCalled

NextValidator == ValidateToken

SpecValidator == InitValidator /\ [][NextValidator]_vars

C2_Step ==
    \A c \in Calls :
        LET got == delivered'[c] # delivered[c]
            matching == lastDelivery'.correlation_id = correlation_id[c]
        IN  /\ (future'[c] # future[c] /\ future'[c].state = "result")
                  => /\ got /\ lastDelivery'.to = c /\ matching
                     /\ future'[c].msg.correlation_id = correlation_id[c]
            /\ acked'[c] # acked[c] => (got /\ lastDelivery'.to = c /\ matching)
            /\ (got /\ ~matching)
                  => (future'[c] = future[c] /\ acked'[c] = acked[c])

\* C2: a call's future is resolved, and a message acknowledged, only by the
\* delivery to that call's consumer of a message whose correlation_id is
\* the call's own; a message with any other correlation_id leaves the
\* future and the acknowledgements as they were.
C2_OnlyMatchingResolves == [][C2_Step]_vars

\* Two calls wait concurrently; the first got a message carrying the
\* second's correlation id and is still pending, nothing acknowledged.
C2_Witness ==
    /\ pc[1] = "wait_for" /\ pc[2] = "wait_for"
    /\ lastDelivery = [to |-> 1, correlation_id |-> correlation_id[2]]
    /\ delivered[1] = 1 /\ acked[1] = 0
    /\ future[1].state = "pending"

\* wait_for of call c has ended.
C3_Resolved(c) == pc[c] \in {"finally", "done"} /\ Len(published[c]) > 0

C3_Inv ==
    \A c \in Calls :
        /\ C3_Resolved(c) => future[c].state \in {"result", "cancelled"}
        /\ C3_Resolved(c) =>
              (future[c].state = "cancelled" <=> raised[c] = TimeoutRaised(adapter))
        /\ (C3_Resolved(c) /\ future[c].state = "cancelled")
              => response[c] = NoResponse
        /\ (pc[c] = "done" /\ future[c].state = "cancelled")
              => rpcResult[c].kind = "raise"
        /\ (pc[c] = "done" /\ future[c].state = "result")
              => rpcResult[c] # Raised(TimeoutRaised(adapter))

C3_Step ==
    \A c \in Calls :
        /\ future[c].state = "cancelled"
              => /\ future'[c] = future[c]
                 /\ raised'[c] = raised[c]
                 /\ response'[c] = response[c]
        /\ future[c].state = "result"
              => /\ future'[c] = future[c]
                 /\ raised'[c] # TimeoutRaised(adapter)

\* C3: a call whose wait has ended was resolved by exactly one of the two
\* ways, a reply (the future holds a result) or the timeout (the future is
\* cancelled and the timeout error is pending), never both and never
\* neither, and the resolution is final: after the timeout a matching reply
\* changes neither the future nor the pending error, and a future resolved
\* by a reply never fails with the timeout.
C3_ResolvedOnce == []C3_Inv /\ [][C3_Step]_vars

\* A call timed out, a matching reply arrived afterwards and raised in the
\* callback, and the call still ended with the timeout error.
C3_Witness ==
    /\ pc[1] = "done"
    /\ future[1].state = "cancelled"
    /\ callbackErrors[1] > 0
    /\ rpcResult[1] = Raised(TimeoutRaised(adapter))

\* C4: a call whose wait expired without a matching reply ends with status
\* 504 in the error class of its backend (AuthServiceError for the Auth
\* adapter, PaymentServiceError for the Payment adapter), having published
\* its request once.
C4_TimeoutGives504 ==
    \A c \in Calls :
        (pc[c] = "done" /\ future[c].state = "cancelled")
            => /\ rpcResult[c] = Raised(TimeoutRaised(adapter))
               /\ Len(published[c]) = 1

(***************************************************************************)
(* Properties of the use cases (specification SpecGate).                   *)
(***************************************************************************)
\* A validly signed, unexpired access token whose only role is 'user'.
UserAccessToken ==
    [wellformed |-> TRUE, signature |-> "valid", age |-> -60,
     payload |-> [sub |-> "u1", token_type |-> "access", roles |-> {"user"}]]

\* C5: in the three authorized payment use cases the validator runs first
\* on the access token with the operation's required role; when it raises,
\* the backend adapter is never invoked and the use case ends with exactly
\* the validator's error; the backend is invoked only after the validator
\* returned.  A token with roles ['user'] given to add bank account ends
\* with the 403 error and no backend call.
C5_ValidationGatesBackend ==
    (gOp \in UseCases /\ gPc # "start") =>
        LET v == validate_token(gToken, "access", RequiredRoles(gOp))
        IN  /\ gValidation = v
            /\ v.kind = "raise"
                  => (gBackendCalls = 0 /\ gPc = "done" /\ gResult = v)
            /\ gBackendCalls > 0 => v.kind = "return"
            /\ (gOp = "add_bank_account" /\ gToken = UserAccessToken)
                  => /\ gBackendCalls = 0
                     /\ gResult.kind = "raise"
                     /\ gResult.error.cls = "ApiGatewayError"
                     /\ gResult.error.status_code = 403

\* Add bank account was asked with a 'user' token and ended with 403,
\* the backend untouched.
C5_Witness ==
    /\ gOp = "add_bank_account" /\ gToken = UserAccessToken
    /\ gPc = "done"
    /\ gResult.error.status_code = 403
    /\ gBackendCalls = 0

\* C6: a refresh asked with a token whose token_type is 'access' ends with
\* the 401 error of the validator and the adapter's refresh operation is
\* never invoked.
C6_RefreshRejectsAccessToken ==
    (/\ gOp \in {"service_refresh", "use_case_refresh"}
     /\ gPc # "start"
     /\ "token_type" \in DOMAIN gToken.payload
     /\ gToken.payload.token_type = "access")
        => /\ gBackendCalls = 0
           /\ gPc = "done"
           /\ gResult.kind = "raise"
           /\ gResult.error.cls = "ApiGatewayError"
           /\ gResult.error.status_code = 401

(***************************************************************************)
(* Properties of validate_token (specification SpecValidator).             *)
(***************************************************************************)
\* C7: validate_token returns a payload only when the payload's token_type
\* equals required_token_type, and then returns that payload; a token whose
\* token_type differs from the required one (an access token where refresh
\* is required, or the reverse) is rejected with the 401 ApiGatewayError.
C7_TokenTypeMustMatch ==
    (gOp = "validate_token" /\ gPc = "done") =>
        /\ gValidation.kind = "return"
              => /\ "token_type" \in DOMAIN gToken.payload
                 /\ gToken.payload.token_type = gRequiredType
                 /\ gValidation.value = gToken.payload
        /\ ("token_type" \in DOMAIN gToken.payload
                /\ gToken.payload.token_type # gRequiredType)
              => /\ gValidation.kind = "raise"
                 /\ gValidation.error.cls = "ApiGatewayError"
                 /\ gValidation.error.status_code = 401

\* A validly signed, unexpired refresh token was presented where an access
\* token is required and was rejected with 401.
C7_Witness ==
    /\ gOp = "validate_token" /\ gPc = "done"
    /\ gToken.wellformed /\ gToken.signature = "valid" /\ gToken.age < 0
    /\ "token_type" \in DOMAIN gToken.payload
    /\ gToken.payload.token_type = "refresh"
    /\ gRequiredType = "access"
    /\ gValidation.kind = "raise" /\ gValidation.error.status_code = 401

\* The token decodes and its token_type is the required one.
C8_Applies ==
    /\ gOp = "validate_token" /\ gPc = "done"
    /\ jwt_decode(gToken).ok
    /\ "token_type" \in DOMAIN gToken.payload
    /\ gToken.payload.token_type = gRequiredType

\* C8: for a decodable token of the required type, with a non-empty
\* required_roles validate_token returns (the payload) if and only if the
\* payload has a roles claim that contains every required role; a roles
\* claim lacking one required role gives the 403 ApiGatewayError even when
\* it holds the others; with an empty required_roles the payload is
\* returned whatever its roles.
C8_AllRolesRequired ==
    C8_Applies =>
        LET p == gToken.payload
            has == "roles" \in DOMAIN p
            all == has /\ \A i \in 1..Len(gRequiredRoles) : gRequiredRoles[i] \in p.roles
        IN  IF gRequiredRoles = <<>>
            THEN gValidation = ReturnedPayload(p)
            ELSE /\ gValidation.kind = "return" <=> all
                 /\ all => gValidation = ReturnedPayload(p)
                 /\ (has /\ ~all)
                       => /\ gValidation.kind = "raise"
                          /\ gValidation.error.cls = "ApiGatewayError"
                          /\ gValidation.error.status_code = 403

\* Two roles are required, the token holds one of them, the result is 403.
C8_Witness ==
    /\ C8_Applies
    /\ gRequiredRoles = <<"user", "css_admin">>
    /\ "roles" \in DOMAIN gToken.payload
    /\ gToken.payload.roles = {"user"}
    /\ gValidation.kind = "raise" /\ gValidation.error.status_code = 403

\* C9: validate_token either returns a payload or raises the
\* ApiGatewayError of the taxonomy with status 401 or 403, never another
\* exception, whatever the token, a payload without token_type or roles
\* included.
C9_AlwaysTaxonomyError ==
    (gOp = "validate_token" /\ gPc = "done") =>
        \/ gValidation.kind = "return"
        \/ /\ gValidation.kind = "raise"
           /\ gValidation.error.cls = "ApiGatewayError"
           /\ gValidation.error.status_code \in {401, 403}

(***************************************************************************)
(* Properties of the adapter operations (specification SpecOps).           *)
(***************************************************************************)
\* The fields of the DTO of an Auth adapter operation.
C10_Fields(o) ==
    IF o = "register"
    THEN {"first_name", "last_name", "email", "phone_number", "roles"}
    ELSE {"access_token", "refresh_token"}

C10_Dto(o) ==
    CASE o = "login" -> "LoginResponseDTO"
      [] o = "refresh" -> "RefreshTokenResponseDTO"
      [] o = "register" -> "RegisterResponseDTO"

\* A body of the shape the operation's DTO takes.
C10_WellFormed(o, b) ==
    /\ ~b.null
    /\ o # "login" => DOMAIN b.map \subseteq C10_Fields(o)
    /\ o = "register" => {"first_name", "last_name"} \subseteq DOMAIN b.map

FailedAuthReply(c) ==
    /\ pc[c] = "done" /\ adapter = "auth"
    /\ rpcResult[c].kind = "return"
    /\ rpcResult[c].value.success # "True"

\* C11: for a failed Auth reply, a status code of 400, 401, 403 or 404
\* raises AuthServiceError with that status code and the reply's
\* error_message as detail; a status code outside the taxonomy (not one of
\* these, 409, 500, 503, 504) raises the generic ApiGatewayError 500.
C11_FailedReplyMapped ==
    \A c \in Calls :
        FailedAuthReply(c) =>
            LET r == rpcResult[c].value
            IN  /\ r.status_code \in {400, 401, 403, 404}
                      => opResult[c] =
                            Raised([cls |-> "AuthServiceError",
                                    status_code |-> r.status_code,
                                    detail |-> r.error_message])
                /\ r.status_code \notin {400, 401, 403, 404, 409, 500, 503, 504}
                      => /\ opResult[c].kind = "raise"
                         /\ opResult[c].error.cls = "ApiGatewayError"
                         /\ opResult[c].error.status_code = 500

\* A login got {401, success false, error_message 'bad creds'} and raised
\* the 401 error with detail 'bad creds'.
C11_Witness ==
    /\ FailedAuthReply(first) /\ op[first] = "login"
    /\ rpcResult[first].value.status_code = 401
    /\ rpcResult[first].value.error_message = "bad creds"
    /\ opResult[first].kind = "raise"
    /\ opResult[first].error.status_code = 401
    /\ opResult[first].error.detail = "bad creds"

\* C12: a register that got a reply with status_code 409 and success false
\* raises an error with status 409, not the generic 500 error.
C12_RegisterConflict ==
    \A c \in Calls :
        (FailedAuthReply(c) /\ op[c] = "register"
            /\ rpcResult[c].value.status_code = 409)
            => /\ opResult[c].kind = "raise"
               /\ opResult[c].error.status_code = 409

\* add_bank_card of call c got, and _make_rpc_call returned, a reply whose
\* success flag is not true.
FailedPaymentReply(c) ==
    /\ pc[c] = "done" /\ adapter = "payment" /\ op[c] = "add_bank_card"
    /\ rpcResult[c].kind = "return"
    /\ future[c].state = "result"
    /\ future[c].msg.envelope.success # "True"

\* C13: an add_bank_card that got a reply with success false raises
\* PaymentServiceError with the reply's status for 400, 401 and 403,
\* PaymentServiceError 500 for 500 and ApiGatewayError 500 for any other
\* status code; it never returns a PaymentTokenResponse.
C13_PaymentFailedReplyMapped ==
    \A c \in Calls :
        FailedPaymentReply(c) =>
            LET e == future[c].msg.envelope
            IN  /\ opResult[c].kind = "raise"
                /\ opResult[c].error.cls =
                      IF e.status_code \in {400, 401, 403, 500}
                      THEN "PaymentServiceError" ELSE "ApiGatewayError"
                /\ opResult[c].error.status_code =
                      IF e.status_code \in {400, 401, 403} THEN e.status_code ELSE 500

\* C14: every ended _make_rpc_call either returned a RabbitMQResponse or
\* raised one error of the taxonomy (504 timeout, 503 broker unavailable,
\* 500 internal), at whichever step it failed; no other exception leaves it.
C14_AlwaysTaxonomyError ==
    \A c \in Calls :
        pc[c] = "done" =>
            \/ rpcResult[c].kind = "return"
            \/ /\ rpcResult[c].kind = "raise"
               /\ rpcResult[c].error.cls \in TaxonomyClasses
               /\ rpcResult[c].error.status_code \in {500, 503, 504}

\* C15: when a call has ended, the reply queues it declared (none or one)
\* are as many as the teardowns (consumer cancellations) it performed.
C15_NoResidualQueue ==
    \A c \in Calls :
        pc[c] = "done" =>
            (IF queue[c] = "none" THEN 0 ELSE 1) = cancels[c]

C16_Step ==
    \A c \in Calls :
        (/\ delivered'[c] # delivered[c]
         /\ lastDelivery'.to = c
         /\ lastDelivery'.correlation_id = correlation_id[c]
         /\ future[c].state = "result")
            => /\ future'[c] = future[c]
               /\ acked'[c] = acked[c] + 1
               /\ callbackErrors'[c] = callbackErrors[c]

\* C16: a second reply with the call's correlation id, delivered while the
\* consumer is registered and the future already holds the first reply,
\* leaves the future as it is, is acknowledged and raises no error.
C16_SecondReplyDropped == [][C16_Step]_vars

C17_Step ==
    \A c \in Calls :
        /\ pc[c] \in {"wait_for", "finally", "done"}
              => (published'[c] = published[c] /\ pc'[c] # "publish")
        /\ pc[c] = "done" => pc'[c] = "done"

C18_BrokerFailureGives503 ==
    \A c \in Calls :
        (pc[c] = "done" /\ tryFault[c] # "none")
            => /\ rpcResult[c].kind = "raise"
               /\ rpcResult[c].error.cls = "RabbitMQError"
               /\ rpcResult[c].error.status_code = 503

C19_Step ==
    \A c \in Calls :
        (pc[c] = "connect" /\ pc'[c] = "done")
            => /\ rpcResult'[c].kind = "raise"
               /\ rpcResult'[c].error.cls = "RabbitMQError"
               /\ rpcResult'[c].error.status_code = 503

\* C19: whenever connect() fails, at whichever of its steps (connect_robust,
\* opening the channel, declaring the exchange, re-opening a closed channel
\* and re-declaring the exchange on a live connection), in either adapter,
\* what it raises is RabbitMQError with status 503.
C19_ConnectFailsWith503 == [][C19_Step]_vars

C20_Step ==
    \A c \in Calls :
        (pc[c] = "connect" /\ pc'[c] = "declare_queue")
            => /\ connection' = "open"
               /\ channel' = "open"
               /\ exchange' = "declared"

\* C20: whenever connect() returns normally, whatever the state it started
\* from, the adapter holds an open connection, an open channel and an
\* exchange declared on that channel.
C20_ConnectedAfterConnect == [][C20_Step]_vars

(***************************************************************************)
(* Properties of concurrent connect() (specification SpecReconnect).       *)
(***************************************************************************)
\* C21: when concurrent callers all found the connection dead and all have
\* returned from connect(), the stored channel was opened on the stored
\* connection and the stored exchange was declared on the stored channel.
C21_ConsistentTriple ==
    (\A c \in Callers : cpc[c] = "returned" /\ block[c] = "first")
        => /\ sConnection # 0
           /\ sChannel.conn = sConnection
           /\ sExchange.chan = sChannel

(***************************************************************************)
(* Further properties of _make_rpc_call (specification Spec).              *)
(***************************************************************************)
\* The wait of call c expires in this step.
C22_TimesOut(c) ==
    /\ pc[c] = "wait_for" /\ pc'[c] = "finally"
    /\ future'[c].state = "cancelled"

C22_Step ==
    \A c \in Calls : \A d \in Calls \ {c} :
        /\ C22_TimesOut(c)
              => /\ future'[d] = future[d]
                 /\ raised'[d] = raised[d]
                 /\ deadline'[d] = deadline[d]
                 /\ pc'[d] = pc[d]
                 /\ consumer'[d] = consumer[d]
        /\ (/\ future[c].state = "cancelled"
            /\ future[d].state = "pending"
            /\ delivered'[d] # delivered[d]
            /\ lastDelivery'.correlation_id = correlation_id[d])
              => future'[d].state = "result"

\* C22: the expiry of one call's wait leaves every other call's future,
\* pending error, deadline, position and consumer as they were, and a call
\* that is still waiting after another call timed out is resolved by its
\* own reply as usual.
C22_IndependentDeadlines == [][C22_Step]_vars

\* Call 1 has timed out; call 2, still in flight, has just been resolved
\* by its own reply.
C22_Witness ==
    /\ future[1].state = "cancelled" /\ raised[1] = TimeoutRaised(adapter)
    /\ pc[2] = "wait_for" /\ future[2].state = "result"
    /\ lastDelivery = [to |-> 2, correlation_id |-> correlation_id[2]]
    /\ raised[2] = NoError

\* Some call is inside connect() in this step.
C23_ConnectStep == \E c \in Calls : pc[c] = "connect" /\ pc'[c] # "connect"

C23_Step ==
    ~C23_ConnectStep => UNCHANGED <<connection, channel, exchange>>

\* C23: every step of an RPC call other than its connect step leaves the
\* adapter's connection, channel and exchange as they are; only connect()
\* assigns them.
C23_SharedHandlesKept == [][C23_Step]_vars

\* One call has run to its end, finally block included, another is still
\* waiting, and the handles are the ones connect() stored.
C23_Witness ==
    /\ pc[1] = "done" /\ cancels[1] > 0
    /\ pc[2] = "wait_for"
    /\ connection = "open" /\ channel = "open" /\ exchange = "declared"

(***************************************************************************)
(* Properties of the HTTP layer (specification SpecApi).                   *)
(***************************************************************************)
\* The status the login, refresh and register routes answer a domain
\* exception with, 0 for an exception the route has no clause for.
C24_Status(route, cls) ==
    CASE cls = "UnauthorizedException" /\ route \in {"login", "refresh"} -> 401
      [] cls = "SourceUnavailableException" -> 503
      [] cls = "SourceTimeoutException" -> 504
      [] cls = "ConflictException" /\ route = "register" -> 409
      [] cls = "UnhandledException" -> 500
      [] OTHER -> 0

C24_Applies ==
    /\ wPc = "done"
    /\ wRoute \in {"login", "refresh", "register"}

\* C24: on login, refresh and register a domain exception of the service
\* is answered with the fixed status of its class and a body holding only
\* detail (the exception's own detail for 401, 'An unexpected error
\* occurred.' for 500), and a normal result with 200 (login, refresh) or
\* 201 (register) and success true.
C24_RoutesMapDomainExceptions ==
    C24_Applies =>
        IF wService.kind = "return"
        THEN /\ wResult.kind = "response"
             /\ wResult.response.status_code =
                    (IF wRoute = "register" THEN 201 ELSE 200)
             /\ wResult.response.success = "True"
        ELSE LET exc == wService.error
                 code == C24_Status(wRoute, exc.cls)
             IN  (exc.cls \in DomainClasses /\ code # 0) =>
                    /\ wResult.kind = "response"
                    /\ wResult.response.status_code = code
                    /\ wResult.response.detail # None
                    /\ wResult.response.success = None
                    /\ wResult.response.message = None
                    /\ code = 401 => wResult.response.detail = exc.detail
                    /\ code = 500 =>
                         wResult.response.detail = "An unexpected error occurred."

\* register answered a ConflictException of its service with 409.
C24_Witness ==
    /\ C24_Applies /\ wRoute = "register"
    /\ wService = ServiceRaises(DomainError("ConflictException", "Conflict."))
    /\ wResult.kind = "response" /\ wResult.response.status_code = 409

\* The classes a route maps to a status of their own.
C25_Mapped(route) ==
    IF route = "register"
    THEN {"SourceUnavailableException", "SourceTimeoutException", "ConflictException"}
    ELSE {"UnauthorizedException", "SourceUnavailableException",
          "SourceTimeoutException"}

\* C25: on login, refresh, register and test_token every exception of the
\* service other than the specifically mapped domain exceptions is
\* answered with 500 and detail 'An unexpected error occurred.'.
C25_UnexpectedGives500 ==
    (/\ wPc = "done" /\ wRoute \in AuthRoutes
     /\ wService.kind = "raise"
     /\ wService.error.cls \notin C25_Mapped(wRoute))
        => /\ wResult.kind = "response"
           /\ wResult.response.status_code = 500
           /\ wResult.response.detail = "An unexpected error occurred."

\* C29: every error of the validator and the adapters that reaches
\* ExceptionMiddleware.dispatch is answered with a JSON response whose
\* success is false and whose status is the error's status code.
C29_DispatchAnswersEveryError ==
    (/\ wPc = "done"
     /\ wService.kind = "raise"
     /\ wService.error \in ValidatorErrors \cup AuthAdapterErrors
                             \cup PaymentAdapterErrors)
        => /\ wResult.kind = "response"
           /\ wResult.response.success = "False"
           /\ wResult.response.status_code = wService.error.status_code

\* C30: a request of the HTTP payment client that times out fails with
\* PaymentServiceError 504, and a backend answer with an error status fails
\* with PaymentServiceError carrying that status.
C30_TimeoutGives504 ==
    hPc = "done" =>
        /\ (hOutcome.kind = "raise" /\ IsTimeoutException(hOutcome.cls))
              => /\ hResult.kind = "raise"
                 /\ hResult.error.cls = "PaymentServiceError"
                 /\ hResult.error.status_code = 504
        /\ (hOutcome.kind = "answer" /\ hOutcome.status_code >= 400)
              => /\ hResult.kind = "raise"
                 /\ hResult.error.cls = "PaymentServiceError"
                 /\ hResult.error.status_code = hOutcome.status_code

(***************************************************************************)
(* Further properties of the adapter operations (specification SpecOps).   *)
(***************************************************************************)
\* C26: every RabbitMQResponse built from a reply with a status code of
\* 400 or more has a success flag that is not set, and no adapter
\* operation that got such a response returns normally.
C26_ErrorStatusNeverSuccess ==
    \A c \in Calls :
        (response[c] # NoResponse /\ response[c].status_code >= 400)
            => /\ ~Truthy(response[c].success)
               /\ opResult[c].kind # "return"

(***************************************************************************)
(* The request message (specifications Spec and SpecOps).                  *)
(***************************************************************************)
C27_Step ==
    \A c \in Calls :
        \* the consumer is registered on a declared queue
        /\ (consumer'[c] = "registered" /\ consumer[c] # "registered")
              => (queue[c] = "declared" /\ published[c] = << >>)
        \* the request is published with the consumer in place
        /\ (published'[c] # published[c] /\ published'[c] # << >>)
              => /\ queue[c] = "declared"
                 /\ consumer[c] = "registered"
                 /\ published'[c] = Append(published[c],
                        [correlation_id |-> correlation_id[c], reply_to |-> c,
                         body |-> published'[c][Len(published'[c])].body])
        \* the wait starts with the publish
        /\ (pc'[c] = "wait_for" /\ pc[c] # "wait_for")
              => published'[c] # published[c]

\* C27: within a call the reply queue is declared before the consumer is
\* registered, the consumer is registered before the request is published,
\* and the wait for the reply starts only with the publication; the
\* published message's reply_to and correlation_id are the call's own.
C27_StepsOrdered ==
    /\ [][C27_Step]_vars
    /\ [](\A c \in Calls :
            pc[c] = "wait_for" =>
                /\ queue[c] = "declared" /\ consumer[c] = "registered"
                /\ Len(published[c]) > 0)

\* Both calls are waiting for their replies, each with its own message
\* published.
C27_Witness ==
    \A c \in Calls :
        /\ pc[c] = "wait_for"
        /\ Len(published[c]) = 1
        /\ published[c][1].reply_to = c
        /\ published[c][1].correlation_id = correlation_id[c]

\* C28: the operation_type of every published message body is the tag of
\* the adapter operation that published it, also when the payload has a
\* key of that name, and every other payload field is in the body with its
\* value.
C28_OperationTypeIsTag ==
    \A c \in Calls : \A i \in 1..Len(published[c]) :
        LET body == published[c][i].body
        IN  /\ body["operation_type"] = op[c]
            /\ \A k \in DOMAIN callPayload[c] \ {"operation_type"} :
                    k \in DOMAIN body /\ body[k] = callPayload[c][k]

====
